---------------------------- MODULE Spec2Model ----------------------------
(***************************************************************************)
(* Model of the engram evaluation harness (src/eval).                      *)
(*                                                                         *)
(*   Spec       the improvement loop, improvement_loop.py main()           *)
(*   SpecStrat  the two source-rewriting strategies called repeatedly      *)
(*   SpecPass   one evaluation pass, engram_eval.py main()                 *)
(*   SpecScore  the scoring functions applied to drawn texts               *)
(*   SpecBench  the worker pool of a benchmark run, locomo_eval.py main()  *)
(*   SpecAggregate  a run of either evaluation program                     *)
(*   SpecConv   the engine calls of the conversations of a benchmark run   *)
(*   SpecStart  an evaluation pass from its configuration checks on        *)
(*   SpecAnalyze  analyze_failures applied to drawn results                *)
(*   SpecAsk    ask_engram applied to drawn engine outputs                 *)
(*   SpecCalls  one conversation evaluation, call by call                  *)
(*                                                                         *)
(* Numbers: threshold is kept in hundredths (0.15 is 15); scores are the   *)
(* percentage-scaled numbers of the results file.                          *)
(***************************************************************************)
EXTENDS Integers, Sequences, FiniteSets, TLC

VARIABLES
    pc,          \* position in main(): loop, eval, fix12, fix3, ... done, crashed
    maxIter,     \* args.max_iterations
    target,      \* args.target_judge
    iteration,   \* the for-loop variable
    threshold,   \* main's threshold, in hundredths
    top_k,       \* main's top_k
    history,     \* main's history list
    curJudge,    \* current_judge of the last successful pass
    applied,     \* main's applied list
    chunkOk,     \* value returned by strategy_reduce_chunk_size in this iteration
    searchRs,    \* content of src/embeddings/search.rs
    promptsRs,   \* content of src/llm/prompts.rs
    loopResults, \* content of eval/loop_results.json
    raised,      \* the exception that left main(), and the step it left from
    evalCount,   \* evaluation subprocesses started so far
    buildCount,  \* cargo build subprocesses started so far
    embedLog,    \* (iteration, outcome) of each embed subprocess so far
    stratLog,    \* SpecStrat: the calls made so far, per strategy
    qa_pairs,    \* SpecPass: the QA items of the pass, after filtering
    use_judge,   \* SpecPass: args.use_judge (the API key is set)
    idx,         \* SpecPass: QA items handled so far (the loop's i)
    f1_by_cat,   \* SpecPass: category -> token-F1 scores, in order
    judge_by_cat,\* SpecPass: category -> judge scores, in order
    askLog,      \* SpecPass: how each engine invocation ended
    judgeCalls,  \* SpecPass: remote judge calls made so far
    results,     \* SpecPass: content of the pass's output file
    lastItem,    \* SpecPass: what the QA item handled last came to
    scoreArgs,   \* SpecScore: the (prediction, gold) texts drawn
    scoreF1,     \* SpecScore: what token_f1 returned for them
    normLog,     \* SpecScore: normalize_answer applied again and again
    convResults, \* SpecBench: what process(conv) comes to, per conversation
    workers,     \* SpecBench: args.workers
    convState,   \* SpecBench: per conversation: queued, running or done
    merged,      \* SpecBench: results the for-loop over pool.map has taken
    all_scores,  \* SpecBench: main's all_scores
    completionLog, \* SpecBench: the conversations in the order they finished
    benchOut,    \* SpecBench: the scores file and the report of the run
    dataset,     \* SpecConv: the conversations of the run
    engine,      \* SpecConv: per conversation, where eval_conversation is
    config,      \* what the run finds: engine binary, dataset file, API key
    stats_by_cat, \* SpecAnalyze: by_category of the results file, in order
    analysis,    \* SpecAnalyze: what analyze_failures returned
    askRun,      \* SpecAsk: how the engine's run of one ask ended
    askPrediction, \* SpecAsk: what ask_engram returned for it
    evalArgs,    \* SpecCalls: the arguments of eval_conversation
    evalRun      \* SpecCalls: where eval_conversation is, and its engine calls

vars == <<pc, maxIter, target, iteration, threshold, top_k, history, curJudge,
          applied, chunkOk, searchRs, promptsRs, loopResults, raised,
          evalCount, buildCount, embedLog, stratLog,
          qa_pairs, use_judge, idx, f1_by_cat, judge_by_cat, askLog,
          judgeCalls, results, lastItem, scoreArgs, scoreF1, normLog,
          convResults, workers, convState, merged, all_scores, completionLog,
          benchOut, dataset, engine, config, stats_by_cat,
          analysis, askRun, askPrediction, evalArgs, evalRun>>

convVars == <<dataset, engine>>

benchVars == <<convResults, workers, convState, merged, all_scores,
               completionLog, benchOut, convVars>>

askVars == <<askRun, askPrediction>>

callVars == <<evalArgs, evalRun>>

analyzeVars == <<stats_by_cat, analysis, askVars, callVars>>

scoreVars == <<scoreArgs, scoreF1, normLog, analyzeVars>>

passVars == <<qa_pairs, use_judge, idx, f1_by_cat, judge_by_cat, askLog,
              judgeCalls, results, lastItem, scoreVars, benchVars, config>>

loopVars == <<pc, maxIter, target, iteration, threshold, top_k, history,
              curJudge, applied, chunkOk, searchRs, promptsRs, loopResults,
              raised, evalCount, buildCount, embedLog, stratLog>>

---------------------------------------------------------------------------
(* Bounds of the model *)

MaxIterBound == 6

MaxCalls == 3

MaxItems == 3

MaxText == 3

MaxConvs == 3

MaxWorkers == 2

\* Conversations of a dataset whose engine calls are followed one by one.
MaxDataset == 2

\* QA pairs of a pass that is followed from its first line.
MaxStartItems == 1

\* Categories in a results file given to analyze_failures.
MaxCats == 3

---------------------------------------------------------------------------
(* Program constants *)

ThresholdInit == 15

TopKInit == 12

ThresholdStep == 3

ThresholdFloor == 5

ThresholdGate == 7

TopKStep == 4

TopKMax == 24

TopKGate == 20

ChunkIteration == 2

\* --target-judge values tried, and the (overall_f1, overall_judge) pairs an
\* evaluation pass may write to its results file.
Targets == {10, 20}

EvalResults == {[f1 |-> 0, judge |-> 0], [f1 |-> 50, judge |-> 9],
                [f1 |-> 100, judge |-> 10]}

\* A results file that has not been written.
NoFile == [written |-> FALSE, history |-> <<>>, target |-> 0]

NoException == [type |-> "none", at |-> "none"]

Max(a, b) == IF a >= b THEN a ELSE b

Min(a, b) == IF a <= b THEN a ELSE b

Contains(seq, tok) == \E i \in 1..Len(seq) : seq[i] = tok

RECURSIVE Replace(_, _, _)
\* str.replace on a file seen as a sequence of lines/literals: every
\* occurrence of old is replaced by the sequence new.
Replace(seq, old, new) ==
    IF seq = <<>> THEN <<>>
    ELSE (IF Head(seq) = old THEN new ELSE <<Head(seq)>>)
         \o Replace(Tail(seq), old, new)

---------------------------------------------------------------------------
(* run(): the subprocess helper *)

\* The parameters run() declares.
RunParams == {"cmd", "timeout", "env"}

\* The arguments each call site passes.
EvalCallArgs == {"cmd", "timeout"}

EmbedCallArgs == {"cmd", "timeout"}

BuildCallArgs == {"cmd", "cwd", "timeout"}

\* What a call of run() can do: a keyword run() does not declare raises
\* TypeError before any process is started; otherwise the process exits with
\* code 0, exits with a non-zero code, or subprocess.run raises
\* TimeoutExpired.
RunOutcomes(callArgs) ==
    IF callArgs \subseteq RunParams THEN {"rc0", "rc1", "TimeoutExpired"}
    ELSE {"TypeError"}

IsException(o) == o \in {"TypeError", "TimeoutExpired"}

Spawned(o) == o \in {"rc0", "rc1", "TimeoutExpired"}

---------------------------------------------------------------------------
(* The configuration an evaluation pass checks when it starts *)

\* What a run finds: the engine binary and the dataset file exist or not,
\* GEMINI_API_KEY is set or not, --full-context is given or not.
Configs == [binary : BOOLEAN, dataset : BOOLEAN, api_key : BOOLEAN,
            full_context : BOOLEAN]

\* Everything in place, retrieval mode.
ConfigOk == [binary |-> TRUE, dataset |-> TRUE, api_key |-> TRUE,
             full_context |-> FALSE]

\* Mutant of StartupFails: the credential is not looked at.
StartupFailsNoKeyCheck(cfg, judge) == ~cfg.binary \/ ~cfg.dataset

\* engram_eval.py main, before the QA loop: each of the four checks ends in
\* sys.exit(1).
StartupFails(cfg, judge) ==
    \/ ~cfg.binary
    \/ ~cfg.dataset
    \/ (judge /\ ~cfg.api_key)
    \/ (cfg.full_context /\ ~cfg.api_key)

\* The loop's --use-judge is a store_true flag with default True: the
\* evaluation command always carries --use-judge.
LoopUseJudge == TRUE

\* The exit status of the process: 0 when main() returns, 1 when an
\* exception leaves it, SystemExit(1) of sys.exit(1) included.
ExitStatus == IF raised.type = "none" THEN 0 ELSE 1

\* How the evaluation subprocess of the loop can end: with a configuration
\* its own checks refuse it exits with code 1 before any QA item.
EvalOutcomes(cfg) ==
    IF StartupFails(cfg, LoopUseJudge) THEN {"rc1"}
    ELSE RunOutcomes(EvalCallArgs)

---------------------------------------------------------------------------
(* Strategies *)

strategy_lower_threshold(t) == Max(ThresholdFloor, t - ThresholdStep)

strategy_increase_topk(k) == Min(TopKMax, k + TopKStep)

\* strategy_reduce_chunk_size: o is what the build call does if it is reached.
\* ret is "True", "False" or the exception that leaves the function.
strategy_reduce_chunk_size(content, o) ==
    IF Contains(content, "chunk500")
    THEN [content |-> content, wrote |-> FALSE, built |-> FALSE, ret |-> "False"]
    ELSE IF ~Contains(content, "chunk1000")
    THEN [content |-> content, wrote |-> FALSE, built |-> FALSE, ret |-> "False"]
    ELSE LET new_content == Replace(content, "chunk1000", <<"chunk500">>) IN
         CASE IsException(o) ->
                [content |-> new_content, wrote |-> TRUE, built |-> Spawned(o),
                 ret |-> o]
           [] o = "rc1" ->
                [content |-> content, wrote |-> TRUE, built |-> TRUE,
                 ret |-> "False"]
           [] OTHER ->
                [content |-> new_content, wrote |-> TRUE, built |-> TRUE,
                 ret |-> "True"]

\* Mutant of GuidanceBlock: the inserted text lacks the marker line the guard
\* looks for and keeps the line it replaces.
GuidanceBlockNoMarker == <<"NoExplain5", "Pattern6", "Procedure7">>

\* The text that replaces rule (5) of the prompt: rules (5) to (8).
GuidanceBlock == <<"ForBug5", "Pattern6", "Procedure7", "NoExplain8">>

\* strategy_improve_synthesis(iteration): the build is the caller's.
strategy_improve_synthesis(content, it) ==
    IF it = ChunkIteration /\ ~Contains(content, "ForBug5")
    THEN LET new_system == Replace(content, "NoExplain5", GuidanceBlock) IN
         IF new_system # content
         THEN [content |-> new_system, wrote |-> TRUE, ret |-> "True"]
         ELSE [content |-> content, wrote |-> FALSE, ret |-> "False"]
    ELSE [content |-> content, wrote |-> FALSE, ret |-> "False"]

---------------------------------------------------------------------------
(* The improvement loop *)

SearchContents == {<<"chunk1000">>, <<"chunk500">>, <<"other">>,
                   <<"chunk1000", "chunk500">>}

PromptContents == {<<"NoExplain5">>, <<"other">>, <<"ForBug5", "NoExplain5">>}

\* Mutant of HistoryEntry: the iteration is recorded zero-based.
HistoryEntryZeroBased(it, res, th, k) ==
    [iteration |-> it - 1, f1 |-> res.f1, judge |-> res.judge,
     threshold |-> th, top_k |-> k]

\* Mutant of HistoryEntry: the entry holds the parameters of the next pass.
HistoryEntryNextParams(it, res, th, k) ==
    [iteration |-> it, f1 |-> res.f1, judge |-> res.judge,
     threshold |-> strategy_lower_threshold(th),
     top_k |-> strategy_increase_topk(k)]

\* The parameters the evaluation command carries: --threshold str(threshold)
\* and --top-k str(top_k); str() of a float is read back as the same float.
EvalCmd(th, k) == [threshold |-> th, top_k |-> k]

HistoryEntry(it, res, th, k) ==
    [iteration |-> it, f1 |-> res.f1, judge |-> res.judge,
     threshold |-> th, top_k |-> k]

Categories == {"bugs", "patterns"}

\* No QA item has been handled yet.
NoItem == [done |-> FALSE]

\* token_f1 has not been applied yet.
NotScored == [done |-> FALSE]

\* ask_engram has not returned yet.
NotAsked == [done |-> FALSE]

\* No single engine run is followed (only SpecAsk does).
AskIdle ==
    /\ askRun = [rc |-> "rc1", stdout |-> <<>>]
    /\ askPrediction = NotAsked

\* eval_conversation is not followed call by call (only SpecCalls does).
CallsIdle ==
    /\ evalArgs = [called |-> FALSE]
    /\ evalRun = [at |-> "end"]

\* analyze_failures is not followed (only SpecAnalyze does).
AnalyzeIdle ==
    /\ stats_by_cat = <<>>
    /\ analysis = [done |-> FALSE]
    /\ AskIdle
    /\ CallsIdle

\* The scoring harness is not running (only SpecScore runs it).
ScoreIdle ==
    /\ scoreArgs = [prediction |-> <<>>, gold |-> <<>>]
    /\ scoreF1 = NotScored
    /\ normLog = <<>>
    /\ AnalyzeIdle

\* No engine call of a benchmark run is followed (only SpecConv does).
ConvIdle ==
    /\ dataset = <<>>
    /\ engine = <<>>

\* Categories of the benchmark's QA pairs (two of CATEGORY_NAMES).
BenchCategories == {1, 2}

\* No benchmark run has started (only SpecBench runs one).
BenchIdle ==
    /\ convResults = <<>>
    /\ workers = 1
    /\ convState = <<>>
    /\ merged = 0
    /\ all_scores = [c \in BenchCategories |-> <<>>]
    /\ completionLog = <<>>
    /\ benchOut = [written |-> FALSE]
    /\ ConvIdle

\* The evaluation pass has not started (Spec and SpecStrat do not run it).
PassIdle ==
    /\ qa_pairs = <<>>
    /\ use_judge = FALSE
    /\ idx = 0
    /\ f1_by_cat = [c \in Categories |-> <<>>]
    /\ judge_by_cat = [c \in Categories |-> <<>>]
    /\ askLog = <<>>
    /\ judgeCalls = 0
    /\ results = [written |-> FALSE]
    /\ lastItem = NoItem
    /\ ScoreIdle
    /\ BenchIdle

Init ==
    /\ pc = "loop"
    /\ maxIter \in 0..MaxIterBound
    /\ target \in Targets
    /\ iteration = 0
    /\ threshold = ThresholdInit
    /\ top_k = TopKInit
    /\ history = <<>>
    /\ curJudge = 0
    /\ applied = <<>>
    /\ chunkOk = FALSE
    /\ searchRs \in SearchContents
    /\ promptsRs \in PromptContents
    /\ loopResults = NoFile
    /\ raised = NoException
    /\ evalCount = 0
    /\ buildCount = 0
    /\ embedLog = <<>>
    /\ stratLog = <<>>
    /\ config \in {c \in Configs : ~c.full_context}
    /\ PassIdle

Crash(type) ==
    /\ pc' = "crashed"
    /\ raised' = [type |-> type, at |-> pc]

\* for iteration in range(1, args.max_iterations + 1)
ForNext ==
    /\ pc = "loop"
    /\ IF iteration < maxIter
       THEN /\ iteration' = iteration + 1
            /\ pc' = "eval"
       ELSE /\ iteration' = iteration
            /\ pc' = "summary"
    /\ UNCHANGED <<maxIter, target, threshold, top_k, history, curJudge,
                   applied, chunkOk, searchRs, promptsRs, loopResults, raised,
                   evalCount, buildCount, embedLog, stratLog>>
    /\ UNCHANGED passVars

\* Mutant of TargetMet: a score equal to the target does not stop the loop.
TargetMetStrict(judge, tgt) == judge > tgt

\* current_judge >= args.target_judge
TargetMet(judge, tgt) == judge >= tgt

\* Mutant of RunEval: a failed evaluation is recorded with zero scores before
\* the loop stops.
RunEvalRecordsFailure ==
    /\ pc = "eval"
    /\ evalCount' = evalCount + 1
    /\ \E o \in EvalOutcomes(config) :
         CASE o = "TimeoutExpired" ->
                /\ Crash(o)
                /\ UNCHANGED <<history, curJudge>>
           [] o = "rc1" ->
                /\ history' = Append(history,
                                HistoryEntry(iteration, [f1 |-> 0, judge |-> 0],
                                             threshold, top_k))
                /\ pc' = "summary"
                /\ UNCHANGED <<curJudge, raised>>
           [] OTHER ->
                \E res \in EvalResults :
                  /\ history' = Append(history,
                                  HistoryEntry(iteration, res, threshold, top_k))
                  /\ curJudge' = res.judge
                  /\ pc' = IF TargetMet(res.judge, target) THEN "summary"
                           ELSE "fix12"
                  /\ UNCHANGED raised
    /\ UNCHANGED <<maxIter, target, iteration, threshold, top_k, applied,
                   chunkOk, searchRs, promptsRs, loopResults, buildCount,
                   embedLog, stratLog>>
    /\ UNCHANGED passVars

\* Steps 1 and 2: run the evaluation subprocess, record it, check the target.
RunEval ==
    /\ pc = "eval"
    /\ evalCount' = evalCount + 1
    /\ \E o \in EvalOutcomes(config) :
         CASE o = "TimeoutExpired" ->
                /\ Crash(o)
                /\ UNCHANGED <<history, curJudge>>
           [] o = "rc1" ->
                /\ pc' = "summary"
                /\ UNCHANGED <<history, curJudge, raised>>
           [] OTHER ->
                \E res \in EvalResults :
                  /\ history' = Append(history,
                                  HistoryEntry(iteration, res, threshold, top_k))
                  /\ curJudge' = res.judge
                  /\ pc' = IF TargetMet(res.judge, target) THEN "summary"
                           ELSE "fix12"
                  /\ UNCHANGED raised
    /\ UNCHANGED <<maxIter, target, iteration, threshold, top_k, applied,
                   chunkOk, searchRs, promptsRs, loopResults, buildCount,
                   embedLog, stratLog>>
    /\ UNCHANGED passVars

\* "reindex" in str(applied): both entries that name the index rebuild match.
MentionsReindex(app) ==
    Contains(app, "reindex") \/ Contains(app, "chunk_size 1000->500 + reindex")

\* current_judge < args.target_judge * 0.9
JudgeLow(judge, tgt) == 10 * judge < 9 * tgt

\* Mutant of LowerThresholdFires: the strategy is tried down to its minimum.
LowerThresholdFiresToFloor(t) ==
    t > ThresholdFloor /\ strategy_lower_threshold(t) # t

LowerThresholdFires(t) == t > ThresholdGate /\ strategy_lower_threshold(t) # t

RaiseTopKFires(k, judge, tgt) ==
    k < TopKGate /\ JudgeLow(judge, tgt) /\ strategy_increase_topk(k) # k

\* Mutant of ApplyParamFixes: the chunk-size strategy is tried in every
\* iteration.
ApplyParamFixesChunkAlways ==
    /\ pc = "fix12"
    /\ LET t1 == IF LowerThresholdFires(threshold)
                 THEN strategy_lower_threshold(threshold) ELSE threshold
           a1 == IF LowerThresholdFires(threshold)
                 THEN <<"threshold">> ELSE <<>>
           k1 == IF RaiseTopKFires(top_k, curJudge, target)
                 THEN strategy_increase_topk(top_k) ELSE top_k
           a2 == IF RaiseTopKFires(top_k, curJudge, target)
                 THEN Append(a1, "top_k") ELSE a1
       IN /\ threshold' = t1
          /\ top_k' = k1
          /\ applied' = a2
    /\ pc' = "fix3"
    /\ UNCHANGED <<maxIter, target, iteration, history, curJudge, chunkOk,
                   searchRs, promptsRs, loopResults, raised, evalCount,
                   buildCount, embedLog, stratLog>>
    /\ UNCHANGED passVars

\* Step 4, fixes 1 and 2: applied = [], then the two parameter strategies.
ApplyParamFixes ==
    /\ pc = "fix12"
    /\ LET t1 == IF LowerThresholdFires(threshold)
                 THEN strategy_lower_threshold(threshold) ELSE threshold
           a1 == IF LowerThresholdFires(threshold)
                 THEN <<"threshold">> ELSE <<>>
           k1 == IF RaiseTopKFires(top_k, curJudge, target)
                 THEN strategy_increase_topk(top_k) ELSE top_k
           a2 == IF RaiseTopKFires(top_k, curJudge, target)
                 THEN Append(a1, "top_k") ELSE a1
       IN /\ threshold' = t1
          /\ top_k' = k1
          /\ applied' = a2
    /\ pc' = IF iteration = ChunkIteration THEN "fix3" ELSE "fix4"
    /\ UNCHANGED <<maxIter, target, iteration, history, curJudge, chunkOk,
                   searchRs, promptsRs, loopResults, raised, evalCount,
                   buildCount, embedLog, stratLog>>
    /\ UNCHANGED passVars

\* Fix 3, first half: strategy_reduce_chunk_size on iteration 2.
ReduceChunkSize ==
    /\ pc = "fix3"
    /\ \E o \in RunOutcomes(BuildCallArgs) :
         LET r == strategy_reduce_chunk_size(searchRs, o) IN
         /\ searchRs' = r.content
         /\ buildCount' = IF r.built THEN buildCount + 1 ELSE buildCount
         /\ IF IsException(r.ret)
            THEN /\ Crash(r.ret)
                 /\ UNCHANGED chunkOk
            ELSE /\ chunkOk' = (r.ret = "True")
                 /\ pc' = "fix3_embed"
                 /\ UNCHANGED raised
    /\ UNCHANGED <<maxIter, target, iteration, threshold, top_k, history,
                   curJudge, applied, promptsRs, loopResults, evalCount,
                   embedLog, stratLog>>
    /\ UNCHANGED passVars

\* strategy_rebuild_index returns rc == 0; TimeoutExpired leaves it.
\* Fix 3, second half: the index rebuild of either branch; its result is dropped.
ReindexAfterChunk ==
    /\ pc = "fix3_embed"
    /\ \E o \in RunOutcomes(EmbedCallArgs) :
         /\ embedLog' = Append(embedLog, [iteration |-> iteration, outcome |-> o])
         /\ IF IsException(o)
            THEN /\ Crash(o)
                 /\ UNCHANGED applied
            ELSE /\ applied' = Append(applied,
                                 IF chunkOk THEN "chunk_size 1000->500 + reindex"
                                 ELSE "reindex")
                 /\ pc' = "fix4"
                 /\ UNCHANGED raised
    /\ UNCHANGED <<maxIter, target, iteration, threshold, top_k, history,
                   curJudge, chunkOk, searchRs, promptsRs, loopResults,
                   evalCount, buildCount, stratLog>>
    /\ UNCHANGED passVars

\* Mutant of PeriodicReindex: a failed rebuild is not put on the applied list.
PeriodicReindexIfRebuilt ==
    /\ pc = "fix4"
    /\ IF iteration % 2 = 0 /\ ~MentionsReindex(applied)
       THEN \E o \in RunOutcomes(EmbedCallArgs) :
              /\ embedLog' = Append(embedLog,
                               [iteration |-> iteration, outcome |-> o])
              /\ IF IsException(o)
                 THEN /\ Crash(o)
                      /\ UNCHANGED applied
                 ELSE /\ applied' = IF o = "rc0" THEN Append(applied, "reindex")
                                  ELSE applied
                      /\ pc' = "fix5"
                      /\ UNCHANGED raised
       ELSE /\ pc' = "fix5"
            /\ UNCHANGED <<embedLog, applied, raised>>
    /\ UNCHANGED <<maxIter, target, iteration, threshold, top_k, history,
                   curJudge, chunkOk, searchRs, promptsRs, loopResults,
                   evalCount, buildCount, stratLog>>
    /\ UNCHANGED passVars

\* Fix 4: rebuild the index on every other iteration.
PeriodicReindex ==
    /\ pc = "fix4"
    /\ IF iteration % 2 = 0 /\ ~MentionsReindex(applied)
       THEN \E o \in RunOutcomes(EmbedCallArgs) :
              /\ embedLog' = Append(embedLog,
                               [iteration |-> iteration, outcome |-> o])
              /\ IF IsException(o)
                 THEN /\ Crash(o)
                      /\ UNCHANGED applied
                 ELSE /\ applied' = Append(applied, "reindex")
                      /\ pc' = "fix5"
                      /\ UNCHANGED raised
       ELSE /\ pc' = "fix5"
            /\ UNCHANGED <<embedLog, applied, raised>>
    /\ UNCHANGED <<maxIter, target, iteration, threshold, top_k, history,
                   curJudge, chunkOk, searchRs, promptsRs, loopResults,
                   evalCount, buildCount, stratLog>>
    /\ UNCHANGED passVars

\* Fix 5: strategy_improve_synthesis on iteration 2, then main's own build.
ImproveSynthesis ==
    /\ pc = "fix5"
    /\ IF iteration = ChunkIteration
       THEN LET s == strategy_improve_synthesis(promptsRs, iteration) IN
            /\ promptsRs' = s.content
            /\ IF s.ret = "True"
               THEN \E o \in RunOutcomes(BuildCallArgs) :
                      /\ buildCount' = IF Spawned(o) THEN buildCount + 1
                                       ELSE buildCount
                      /\ IF IsException(o)
                         THEN /\ Crash(o)
                              /\ UNCHANGED applied
                         ELSE /\ applied' = IF o = "rc0"
                                            THEN Append(applied,
                                                        "synthesis_prompt_v2")
                                            ELSE applied
                              /\ pc' = "decide"
                              /\ UNCHANGED raised
               ELSE /\ pc' = "decide"
                    /\ UNCHANGED <<buildCount, applied, raised>>
       ELSE /\ pc' = "decide"
            /\ UNCHANGED <<promptsRs, buildCount, applied, raised>>
    /\ UNCHANGED <<maxIter, target, iteration, threshold, top_k, history,
                   curJudge, chunkOk, searchRs, loopResults, evalCount,
                   embedLog, stratLog>>
    /\ UNCHANGED passVars

\* if applied: ... else: break
Decide ==
    /\ pc = "decide"
    /\ pc' = IF applied # <<>> THEN "loop" ELSE "summary"
    /\ UNCHANGED <<maxIter, target, iteration, threshold, top_k, history,
                   curJudge, applied, chunkOk, searchRs, promptsRs,
                   loopResults, raised, evalCount, buildCount, embedLog,
                   stratLog>>
    /\ UNCHANGED passVars

\* The stop phase: the summary, then eval/loop_results.json.
Summary ==
    /\ pc = "summary"
    /\ loopResults' = [written |-> TRUE, history |-> history,
                       target |-> target]
    /\ pc' = "done"
    /\ UNCHANGED <<maxIter, target, iteration, threshold, top_k, history,
                   curJudge, applied, chunkOk, searchRs, promptsRs, raised,
                   evalCount, buildCount, embedLog, stratLog>>
    /\ UNCHANGED passVars

Next ==
    \/ ForNext
    \/ RunEval
    \/ ApplyParamFixes
    \/ ReduceChunkSize
    \/ ReindexAfterChunk
    \/ PeriodicReindex
    \/ ImproveSynthesis
    \/ Decide
    \/ Summary

Spec == Init /\ [][Next]_vars

---------------------------------------------------------------------------
(* Properties of the improvement loop *)

Last(seq) == seq[Len(seq)]

IsPrefix(s, t) == Len(s) <= Len(t) /\ SubSeq(t, 1, Len(s)) = s

Ended == pc \in {"done", "crashed"}

\* The steps between the target check and the end-of-iteration decision.
ApplySteps == {"fix12", "fix3", "fix3_embed", "fix4", "fix5", "decide"}

\* C1: whatever the evaluation outcomes, the loop runs at most max_iterations
\* evaluation passes and then reaches its stop phase (summary and history
\* write): when main() has ended after passes that all returned (none timed
\* out), it ended through the stop phase.
C1_EndsInStopPhase ==
    /\ evalCount <= maxIter
    /\ (Ended /\ raised.at # "eval") => pc = "done"

\* C2: a rebuild-requiring step that does not end in a successful build
\* leaves its source file as it was before the step (search.rs for the chunk
\* size strategy, prompts.rs for the synthesis-prompt revision).
C2_FailedRebuildRestoresSource ==
    [][/\ (pc = "fix3" /\ ~chunkOk') => searchRs' = searchRs
       /\ (pc = "fix5" /\ ~Contains(applied', "synthesis_prompt_v2"))
             => promptsRs' = promptsRs]_vars

\* C3: a failing build step is absorbed by the apply step: no error leaves
\* main() from the two steps that call the build, the strategy is not in the
\* applied list and the loop goes on to the remaining strategies.
C3_BuildFailureAbsorbed ==
    ~(pc = "crashed" /\ raised.at \in {"fix3", "fix5"})

\* C5: once a pass has recorded a judge score >= target, nothing but the stop
\* phase follows: threshold, top_k, the applied list and both source files
\* stay as they were when that pass started, no build or embed is started,
\* and no further pass or history entry follows.
C5_StopsAtTarget ==
    [][(history' # <<>> /\ Last(history').judge >= target') =>
         /\ threshold' = threshold
         /\ top_k' = top_k
         /\ applied' = applied
         /\ searchRs' = searchRs
         /\ promptsRs' = promptsRs
         /\ buildCount' = buildCount
         /\ embedLog' = embedLog
         /\ pc' \in {"summary", "done"}
         /\ (history # <<>> /\ Last(history).judge >= target) =>
               (history' = history /\ evalCount' = evalCount)]_vars

C5_Witness ==
    /\ pc = "done"
    /\ Len(history) >= 2
    /\ Last(history).judge >= target
    /\ threshold < ThresholdInit

\* C6: an apply step that ends with an empty applied list stops the loop and
\* no further pass runs; an iteration below the maximum in which something
\* was applied is followed by the next evaluation pass.
C6_AppliedDecidesNextPass ==
    [][/\ (pc = "decide" /\ applied = <<>>) => pc' = "summary"
       /\ (pc \in {"summary", "done"}) => evalCount' = evalCount
       /\ (pc \in ApplySteps /\ applied' # <<>> /\ iteration < maxIter)
             => pc' \in ApplySteps \cup {"loop"}
       /\ (pc = "loop" /\ iteration < maxIter) => pc' = "eval"]_vars

\* C7: an embed that failed in the current iteration contributes no entry to
\* the iteration's applied list.
C7_FailedEmbedNotApplied ==
    \A i \in 1..Len(embedLog) :
        (embedLog[i].iteration = iteration /\ embedLog[i].outcome = "rc1")
            => ~MentionsReindex(applied)

\* C8: the history's iteration numbers are exactly 1..n in order, with
\* n <= max_iterations, and the history only ever grows at its end.
C8_HistoryOrdered ==
    /\ [](/\ Len(history) <= maxIter
          /\ \A i \in 1..Len(history) : history[i].iteration = i)
    /\ [][IsPrefix(history, history') /\ Len(history') <= Len(history) + 1]_vars

C8_Witness ==
    /\ pc = "done"
    /\ Len(history) >= 5

\* C9: on every way the loop ends, the stop phase has run: the loop results
\* file holds the full history recorded so far and the target.
C9_HistoryPersistedOnEveryEnd ==
    Ended => loopResults = [written |-> TRUE, history |-> history,
                            target |-> target]

\* The loop was started without the dataset, the engine binary or the
\* credential its evaluation passes need.
LoopMissingConfig == ~config.dataset \/ ~config.binary \/ ~config.api_key

\* C25: when the improvement loop is started with a configuration failure
\* (missing dataset, missing engine binary or missing credential), no
\* iteration begins and the loop process ends with a non-zero exit status.
C25_BadConfigStopsLoop ==
    LoopMissingConfig =>
        /\ iteration = 0
        /\ evalCount = 0
        /\ Ended => ExitStatus # 0

\* C26: the lower-threshold strategy fires in an iteration exactly when
\* threshold > floor, and after it fires threshold = max(floor, threshold -
\* step); from 0.15 the threshold is therefore at the floor when the
\* strategy stops firing.
C26_LowerThresholdUntilFloor ==
    [][pc = "fix12" =>
         /\ (threshold' # threshold) <=> (threshold > ThresholdFloor)
         /\ (threshold' # threshold) <=> Contains(applied', "threshold")
         /\ threshold' # threshold =>
               threshold' = Max(ThresholdFloor, threshold - ThresholdStep)
         /\ threshold' = threshold => threshold = ThresholdFloor]_vars

\* C27: the raise-top-k strategy fires in an iteration exactly when
\* topK < ceiling and the current judge score < 0.9 * target, and after it
\* fires topK = min(ceiling, topK + step); from 12, with the score staying
\* low, topK is therefore at the ceiling when the strategy stops firing.
C27_RaiseTopKUntilCeiling ==
    [][pc = "fix12" =>
         /\ (top_k' # top_k) <=>
               (top_k < TopKMax /\ 10 * curJudge < 9 * target)
         /\ (top_k' # top_k) <=> Contains(applied', "top_k")
         /\ top_k' # top_k => top_k' = Min(TopKMax, top_k + TopKStep)
         /\ (top_k' = top_k /\ 10 * curJudge < 9 * target) =>
               top_k = TopKMax]_vars

\* The embed calls of the current iteration.
EmbedsNow == SelectSeq(embedLog, LAMBDA e : e.iteration = iteration)

\* C28: in each apply step the strategies are evaluated in the fixed order
\* lower-threshold, raise-top-k, reduce-chunk-size, rebuild-index,
\* synthesis-prompt; every strategy whose precondition holds is applied in
\* the same iteration, so every step of the apply step is followed by the
\* next one, and the applied list holds exactly the names of the strategies
\* that took effect, in that order: it only grows at its end, the entry of the
\* chunk-size strategy stands for a build and an index rebuild that
\* succeeded, and "reindex" stands for an index rebuild that succeeded.
C28_StrategiesInOrder ==
    [][/\ pc = "fix12" => pc' \in {"fix3", "fix4"}
       /\ pc = "fix3" => pc' = "fix3_embed"
       /\ pc = "fix3_embed" => pc' = "fix4"
       /\ pc = "fix4" => pc' = "fix5"
       /\ pc = "fix5" => pc' = "decide"
       /\ pc \in {"fix3", "fix3_embed", "fix4", "fix5"} =>
             IsPrefix(applied, applied')
       /\ pc \in {"fix3_embed", "fix4"} =>
             (applied' # applied <=>
                (embedLog' # embedLog /\ Last(embedLog').outcome = "rc0"))
       /\ (pc = "fix4" /\ iteration % 2 = 0 /\ iteration # ChunkIteration) =>
             embedLog' # embedLog]_vars

\* C29: the index rebuild (embed of the current project) is invoked exactly
\* once in every even-numbered iteration that reaches the apply step,
\* including iteration 2 whatever the outcome of the chunk-size strategy,
\* and is never invoked in an odd-numbered iteration.
C29_ReindexOncePerEvenIteration ==
    /\ iteration % 2 = 1 => EmbedsNow = <<>>
    /\ Len(EmbedsNow) <= 1
    /\ (iteration % 2 = 0 /\ iteration > 0
        /\ (pc = "decide" \/ (pc = "crashed" /\ raised.at \in ApplySteps)))
          => Len(EmbedsNow) = 1

\* C31: every evaluation pass that completes successfully appends exactly
\* one history entry, and that entry records the threshold and top_k that
\* were passed to that pass, not the values the strategies applied
\* afterwards in the same iteration produce: the pass step that returns
\* with exit code 0 adds one entry holding the parameters of its command,
\* no other step changes the history, and there are as many entries as
\* passes that returned with exit code 0.
C31_EntryRecordsPassParams ==
    /\ [][/\ (pc = "eval" /\ pc' \in {"fix12", "summary"}
              /\ raised' = raised /\ history' # history) =>
               /\ history' = Append(history, Last(history'))
               /\ Last(history').threshold =
                     EvalCmd(threshold, top_k).threshold
               /\ Last(history').top_k = EvalCmd(threshold, top_k).top_k
          /\ pc = "eval" /\ pc' = "fix12" => Len(history') = Len(history) + 1
          /\ pc # "eval" => history' = history]_vars
    /\ [](Len(history) <= evalCount)

\* The strategies of iteration 1 changed both parameters after the entry of
\* iteration 1 was written; the entry still holds the values of the pass.
C31_Witness ==
    /\ pc = "decide"
    /\ iteration = 1
    /\ Len(history) = 1
    /\ Last(history).threshold = ThresholdInit
    /\ Last(history).top_k = TopKInit
    /\ threshold < ThresholdInit
    /\ top_k > TopKInit

\* C35: in every reachable state of the loop threshold is one of 0.15, 0.12,
\* 0.09, 0.06 and never increases, and top_k is one of 12, 16, 20 and never
\* decreases; so threshold stays above the 0.05 minimum and top_k below the
\* 24 maximum of the strategy functions.
C35_ParametersMonotoneInRange ==
    /\ [](/\ threshold \in {ThresholdInit - n * ThresholdStep : n \in 0..3}
          /\ top_k \in {TopKInit + n * TopKStep : n \in 0..2}
          /\ threshold > ThresholdFloor
          /\ top_k < TopKMax)
    /\ [][threshold' <= threshold /\ top_k' >= top_k]_vars

\* Both parameters at their last value, and an apply step that has left
\* them there.
C35_Witness ==
    /\ pc = "decide"
    /\ iteration >= 4
    /\ threshold = ThresholdInit - 3 * ThresholdStep
    /\ top_k = TopKInit + 2 * TopKStep
    /\ Last(history).threshold = threshold
    /\ Last(history).top_k = top_k

\* The evaluation subprocess of the current iteration has exited with a
\* non-zero code: main() is in its stop phase, with one more evaluation
\* started than history entries.
EvalFailed ==
    /\ pc \in {"summary", "done"}
    /\ evalCount > Len(history)

\* What a failed evaluation must leave alone.
LeftAlone ==
    UNCHANGED <<history, threshold, top_k, searchRs, promptsRs, applied,
                embedLog, buildCount, stratLog>>

\* C36: when the evaluation subprocess of iteration i exits with a non-zero
\* code the loop stops at once: no history entry is appended for i, no
\* strategy is applied, threshold, top_k and the engine source are unchanged,
\* no further evaluation is started, and the history written at the end
\* holds exactly the i-1 earlier entries.
C36_FailedEvalStopsLoop ==
    /\ [][(pc = "eval" /\ pc' = "summary" /\ ~TargetMet(curJudge', target)) =>
             /\ LeftAlone
             /\ Len(history') = iteration - 1
             /\ EvalFailed']_vars
    /\ [][EvalFailed => LeftAlone /\ UNCHANGED <<evalCount, iteration>>
                        /\ pc' = "done"]_vars
    /\ []((EvalFailed /\ pc = "done") =>
             /\ loopResults.written
             /\ loopResults.history = history
             /\ Len(loopResults.history) = iteration - 1
             /\ \A n \in 1..Len(history) : history[n].iteration = n)

\* The evaluation of iteration 3 failed after the strategies of iterations
\* 1 and 2 had run.
C36_Witness ==
    /\ EvalFailed
    /\ pc = "done"
    /\ iteration = 3
    /\ Len(loopResults.history) = 2
    /\ threshold = ThresholdInit - 2 * ThresholdStep

\* search.rs holds the 1000 literal and not the 500 one.
HasOldChunkSize(content) ==
    Contains(content, "chunk1000") /\ ~Contains(content, "chunk500")

\* prompts.rs holds rule (5) in its first form and no guidance block.
HasOldPrompt(content) ==
    Contains(content, "NoExplain5") /\ ~Contains(content, "ForBug5")

C38_NoStrategyStopOnlyInOddIteration ==
    /\ [][(pc = "decide" /\ pc' = "summary") =>
             /\ applied = <<>>
             /\ iteration % 2 = 1
             /\ threshold <= ThresholdGate
             /\ (top_k >= TopKGate \/ 10 * curJudge >= 9 * target)]_vars
    /\ []((pc = "decide" /\ iteration % 2 = 0) => applied # <<>>)

\* Iteration 5 finds nothing to apply; the rebuild of iteration 4 had failed
\* and iteration 4 went on all the same.
C38_Witness ==
    /\ pc = "summary"
    /\ iteration = 5
    /\ Len(history) = 5
    /\ applied = <<>>
    /\ curJudge < target
    /\ \E n \in 1..Len(embedLog) :
          embedLog[n].iteration = 4 /\ embedLog[n].outcome = "rc1"

---------------------------------------------------------------------------
(* SpecStrat: the two source-rewriting strategies, called again and again *)

IterationArgs == 1..3

InitStrat ==
    /\ pc = "strat"
    /\ maxIter = 0
    /\ target = 0
    /\ iteration = 0
    /\ threshold = ThresholdInit
    /\ top_k = TopKInit
    /\ history = <<>>
    /\ curJudge = 0
    /\ applied = <<>>
    /\ chunkOk = FALSE
    /\ searchRs \in SearchContents
    /\ promptsRs \in PromptContents
    /\ loopResults = NoFile
    /\ raised = NoException
    /\ evalCount = 0
    /\ buildCount = 0
    /\ embedLog = <<>>
    /\ stratLog = [chunk |-> <<>>, synth |-> <<>>]
    /\ config = ConfigOk
    /\ PassIdle

\* One call of strategy_reduce_chunk_size.
CallReduceChunkSize ==
    /\ pc = "strat"
    /\ Len(stratLog.chunk) < MaxCalls
    /\ \E o \in RunOutcomes(BuildCallArgs) :
         LET r == strategy_reduce_chunk_size(searchRs, o) IN
         /\ searchRs' = r.content
         /\ buildCount' = IF r.built THEN buildCount + 1 ELSE buildCount
         /\ stratLog' = [stratLog EXCEPT !.chunk =
                           Append(@, [arg |-> 0,
                                      kept |-> r.content # searchRs,
                                      wrote |-> r.wrote, built |-> r.built,
                                      ret |-> r.ret])]
    /\ UNCHANGED <<pc, maxIter, target, iteration, threshold, top_k, history,
                   curJudge, applied, chunkOk, promptsRs, loopResults, raised,
                   evalCount, embedLog>>
    /\ UNCHANGED passVars

\* One call of strategy_improve_synthesis(iteration).
CallImproveSynthesis ==
    /\ pc = "strat"
    /\ Len(stratLog.synth) < MaxCalls
    /\ \E it \in IterationArgs :
         LET s == strategy_improve_synthesis(promptsRs, it) IN
         /\ promptsRs' = s.content
         /\ stratLog' = [stratLog EXCEPT !.synth =
                           Append(@, [arg |-> it,
                                      kept |-> s.content # promptsRs,
                                      wrote |-> s.wrote, built |-> FALSE,
                                      ret |-> s.ret])]
    /\ UNCHANGED <<pc, maxIter, target, iteration, threshold, top_k, history,
                   curJudge, applied, chunkOk, searchRs, loopResults, raised,
                   evalCount, buildCount, embedLog>>
    /\ UNCHANGED passVars

NextStrat ==
    \/ CallReduceChunkSize
    \/ CallImproveSynthesis

SpecStrat == InitStrat /\ [][NextStrat]_vars

\* A call that wrote nothing, started no build and reported not applied.
NoOpCall(c) == ~c.wrote /\ ~c.built /\ c.ret = "False"

\* C4: a rebuild-requiring strategy applied twice in a row is idempotent:
\* after a call that left its new content in the source file (it returned
\* True, or the build call raised), the next call of the same strategy with
\* the same argument writes nothing, starts no build and reports not applied.
C4_SecondApplicationIsNoOp ==
    \A name \in {"chunk", "synth"} :
      \A i \in 1..(Len(stratLog[name]) - 1) :
        (stratLog[name][i].kept /\ stratLog[name][i + 1].arg = stratLog[name][i].arg)
            => NoOpCall(stratLog[name][i + 1])

C4_Witness ==
    /\ Len(stratLog.synth) >= 2
    /\ stratLog.synth[1].ret = "True"
    /\ stratLog.synth[2].arg = stratLog.synth[1].arg
    /\ NoOpCall(stratLog.synth[2])
    /\ Len(stratLog.chunk) >= 2
    /\ stratLog.chunk[1].kept
    /\ NoOpCall(stratLog.chunk[2])

---------------------------------------------------------------------------
(* Scoring (engram_eval.py): exact fractions stand for the floats *)

RECURSIVE Gcd(_, _)
Gcd(a, b) == IF b = 0 THEN a ELSE Gcd(b, a % b)

\* n/d in lowest terms, d > 0.
Frac(n, d) == LET g == Gcd(n, d) IN
              IF n = 0 THEN [num |-> 0, den |-> 1]
              ELSE [num |-> n \div g, den |-> d \div g]

FracAdd(x, y) == Frac(x.num * y.den + y.num * x.den, x.den * y.den)

FracMul(x, y) == Frac(x.num * y.num, x.den * y.den)

FracDiv(x, y) == Frac(x.num * y.den, x.den * y.num)

Zero == Frac(0, 1)

One == Frac(1, 1)

RECURSIVE FracSum(_)
FracSum(vals) == IF vals = <<>> THEN Zero
                 ELSE FracAdd(Head(vals), FracSum(Tail(vals)))

Range(seq) == {seq[i] : i \in 1..Len(seq)}

(* A text is a sequence of pieces.  A piece is one character, or a run of   *)
(* characters of [a-z0-9] that is no part of a stop-word (written as one    *)
(* string: "cache"), or one of the engine's marker phrases.                 *)

\* The letters of the stop-words, one piece each.
Letters == {"a", "n", "d", "t", "h", "e"}

\* Runs of [a-z0-9] characters.
Runs == {"database", "deadlock", "cache", "caused", "outage"}

\* Pieces the class [a-z0-9] matches.
LowerAlnum == Letters \cup Runs

\* Word characters for \b that [a-z0-9 ] does not match: the underscore and
\* a non-ASCII letter without a canonical decomposition.
OtherWordChars == {"_", "ø"}

\* str.lower(); the other pieces of the model have no upper-case form.
Lower(p) == IF p = "A" THEN "a" ELSE IF p = "T" THEN "t" ELSE p

\* \w after s.lower(): alphanumerics and the underscore.
IsWordChar(p) == p \in LowerAlnum \cup OtherWordChars

\* str.isspace()
IsSpace(p) == p \in {" ", "\n"}

\* The alternatives of the pattern (a|an|the|and), as sequences of pieces.
StopWords == {<<"a">>, <<"a", "n">>, <<"t", "h", "e">>, <<"a", "n", "d">>}

\* s.replace(",", "")
DropCommas(s) == SelectSeq(s, LAMBDA p : p # ",")

RECURSIVE NFD(_)
\* unicodedata.normalize("NFD", s): e-acute becomes e and a combining accent
\* (written "´"); the other pieces of the model are their own decomposition.
NFD(s) == IF s = <<>> THEN <<>>
          ELSE (IF Head(s) = "é" THEN <<"e", "´">> ELSE <<Head(s)>>)
               \o NFD(Tail(s))

LowerAll(s) == [i \in 1..Len(s) |-> Lower(s[i])]

RECURSIVE WordRunLen(_)
\* Length of the run of word characters s starts with.
WordRunLen(s) == IF s = <<>> \/ ~IsWordChar(Head(s)) THEN 0
                 ELSE 1 + WordRunLen(Tail(s))

\* The stop-word step removing nothing.
SubStopWordsNone(s) == s

RECURSIVE SubStopWords(_)
\* re.sub(r"\b(a|an|the|and)\b", " ", s): a match has a word boundary on
\* both sides, so it is a whole maximal run of word characters.
SubStopWords(s) ==
    IF s = <<>> THEN <<>>
    ELSE IF IsWordChar(Head(s))
         THEN LET k == WordRunLen(s)
                  run == SubSeq(s, 1, k)
              IN (IF run \in StopWords THEN <<" ">> ELSE run)
                 \o SubStopWords(SubSeq(s, k + 1, Len(s)))
         ELSE <<Head(s)>> \o SubStopWords(Tail(s))

\* re.sub(r"[^a-z0-9 ]", " ", s)
SubOtherChars(s) ==
    [i \in 1..Len(s) |-> IF s[i] \in LowerAlnum \cup {" "} THEN s[i] ELSE " "]

RECURSIVE Split(_)
\* str.split(): the maximal runs of non-space pieces.
Split(s) ==
    IF s = <<>> THEN <<>>
    ELSE IF IsSpace(Head(s)) THEN Split(Tail(s))
    ELSE LET RECURSIVE TokLen(_)
             TokLen(r) == IF r = <<>> \/ IsSpace(Head(r)) THEN 0
                          ELSE 1 + TokLen(Tail(r))
             k == TokLen(s)
         IN <<SubSeq(s, 1, k)>> \o Split(SubSeq(s, k + 1, Len(s)))

RECURSIVE Join(_)
\* " ".join(tokens)
Join(tokens) ==
    IF tokens = <<>> THEN <<>>
    ELSE IF Len(tokens) = 1 THEN Head(tokens)
    ELSE Head(tokens) \o <<" ">> \o Join(Tail(tokens))

normalize_answer(s) ==
    Join(Split(SubOtherChars(SubStopWords(LowerAll(NFD(DropCommas(s)))))))

\* token_f1 returning the precision of the prediction.
token_f1PrecisionOnly(prediction, gold) ==
    LET pred_tokens == Split(normalize_answer(prediction))
        gold_tokens == Split(normalize_answer(gold))
        common == Range(pred_tokens) \cap Range(gold_tokens)
    IN IF pred_tokens = <<>> \/ gold_tokens = <<>>
       THEN (IF pred_tokens = gold_tokens THEN One ELSE Zero)
       ELSE IF common = {} THEN Zero
       ELSE Frac(Cardinality(common), Len(pred_tokens))

\* token_f1 counting every matching position of the prediction.
token_f1CountsMatches(prediction, gold) ==
    LET pred_tokens == Split(normalize_answer(prediction))
        gold_tokens == Split(normalize_answer(gold))
        common == {i \in 1..Len(pred_tokens) :
                      pred_tokens[i] \in Range(gold_tokens)}
    IN IF pred_tokens = <<>> \/ gold_tokens = <<>>
       THEN (IF pred_tokens = gold_tokens THEN One ELSE Zero)
       ELSE IF common = {} THEN Zero
       ELSE LET precision == Frac(Cardinality(common), Len(pred_tokens))
                recall == Frac(Cardinality(common), Len(gold_tokens))
            IN FracDiv(FracMul(Frac(2, 1), FracMul(precision, recall)),
                       FracAdd(precision, recall))

\* token_f1 scoring 0.0 whenever a side has no tokens.
token_f1EmptyIsZero(prediction, gold) ==
    LET pred_tokens == Split(normalize_answer(prediction))
        gold_tokens == Split(normalize_answer(gold))
        common == Range(pred_tokens) \cap Range(gold_tokens)
    IN IF pred_tokens = <<>> \/ gold_tokens = <<>> \/ common = {} THEN Zero
       ELSE LET precision == Frac(Cardinality(common), Len(pred_tokens))
                recall == Frac(Cardinality(common), Len(gold_tokens))
            IN FracDiv(FracMul(Frac(2, 1), FracMul(precision, recall)),
                       FracAdd(precision, recall))

token_f1(prediction, gold) ==
    LET pred_tokens == Split(normalize_answer(prediction))
        gold_tokens == Split(normalize_answer(gold))
        common == Range(pred_tokens) \cap Range(gold_tokens)
    IN IF pred_tokens = <<>> \/ gold_tokens = <<>>
       THEN (IF pred_tokens = gold_tokens THEN One ELSE Zero)
       ELSE IF common = {} THEN Zero
       ELSE LET precision == Frac(Cardinality(common), Len(pred_tokens))
                recall == Frac(Cardinality(common), Len(gold_tokens))
            IN FracDiv(FracMul(Frac(2, 1), FracMul(precision, recall)),
                       FracAdd(precision, recall))

\* _avg: the mean, percentage-scaled; 0.0 for no values.
Avg(vals) == IF vals = <<>> THEN Zero
             ELSE FracMul(FracDiv(FracSum(vals), Frac(Len(vals), 1)),
                          Frac(100, 1))

Sentinel == "Not found in knowledge base"

\* How the remote call of gemini_call can end: a reply with a text part, a
\* reply without one, a transport error, a body that is not JSON.
RemoteOutcomes ==
    {[kind |-> "text", text |-> t] :
        t \in {"YES", "NO", "Maybe", "Yesterday"}}
    \cup {[kind |-> "no_text"], [kind |-> "URLError"],
          [kind |-> "JSONDecodeError"]}

\* gemini_call: the text of the first text part, "" when there is none, and
\* the "[error: ...]" text for any exception of the call.
gemini_call(o) ==
    CASE o.kind = "text" -> o.text
      [] o.kind = "no_text" -> ""
      [] o.kind = "URLError" -> "[error: timed out]"
      [] o.kind = "JSONDecodeError" -> "[error: Expecting value]"

\* The replies of the remote judge model, as gemini_call returns them; a
\* transport or parse error comes back as the "[error: ...]" text.
JudgeResponses == {gemini_call(o) : o \in RemoteOutcomes}

\* resp.strip().upper().startswith("YES")
SaysYes(resp) == resp \in {"YES", "Yesterday"}

\* llm_judge without its early return.
llm_judgeAlwaysCalls(prediction, resp) ==
    [score |-> IF SaysYes(resp) THEN One ELSE Zero, called |-> TRUE]

\* llm_judge: resp is the reply of the remote call if one is made.
llm_judge(prediction, resp) ==
    IF prediction = <<>> \/ Contains(prediction, Sentinel)
    THEN [score |-> Zero, called |-> FALSE]
    ELSE [score |-> IF SaysYes(resp) THEN One ELSE Zero, called |-> TRUE]

---------------------------------------------------------------------------
(* The engine client (engram_eval.py ask_engram) *)

\* Standard outputs of an engine run: texts with "\n" pieces.
Stdouts ==
    {<<"A", " ", "database", " ", "deadlock", " ", "caused", " ",
       "t", "h", "e", " ", "outage", "\n">>,
     <<"cache", "\n", "Sources:", " ", "cache", "\n">>,
     <<Sentinel, "\n", "Hint:", " ", "cache", "\n">>}

\* How subprocess.run(args, timeout=30) can end.
AskOutcomes ==
    {[rc |-> "rc0", stdout |-> out] : out \in Stdouts}
    \cup {[rc |-> "rc1", stdout |-> out] : out \in {<<>>, <<"cache", "\n">>}}
    \cup {[rc |-> "TimeoutExpired", stdout |-> <<>>]}

RECURSIVE Strip(_)
\* str.strip()
Strip(s) ==
    IF s = <<>> THEN <<>>
    ELSE IF IsSpace(Head(s)) THEN Strip(Tail(s))
    ELSE IF IsSpace(s[Len(s)]) THEN Strip(SubSeq(s, 1, Len(s) - 1))
    ELSE s

RECURSIVE SplitLines(_)
\* str.splitlines()
SplitLines(s) ==
    IF s = <<>> THEN <<>>
    ELSE LET RECURSIVE LineLen(_)
             LineLen(r) == IF r = <<>> \/ Head(r) = "\n" THEN 0
                           ELSE 1 + LineLen(Tail(r))
             k == LineLen(s)
         IN <<SubSeq(s, 1, k)>> \o SplitLines(SubSeq(s, k + 2, Len(s)))

RECURSIVE JoinLines(_)
\* "\n".join(lines)
JoinLines(lines) ==
    IF lines = <<>> THEN <<>>
    ELSE IF Len(lines) = 1 THEN Head(lines)
    ELSE Head(lines) \o <<"\n">> \o JoinLines(Tail(lines))

\* l.startswith("Sources:") or l.startswith("Hint:")
IsMetadataLine(line) ==
    line # <<>> /\ Head(line) \in {"Sources:", "Hint:"}

\* ask_engram dropping the "Sources:" lines only.
ask_engramKeepsHints(o) ==
    IF o.rc # "rc0" \/ Contains(o.stdout, Sentinel) THEN <<>>
    ELSE Strip(JoinLines(SelectSeq(SplitLines(Strip(o.stdout)),
                   LAMBDA l : ~(l # <<>> /\ Head(l) = "Sources:"))))

\* ask_engram without the test for the sentinel.
ask_engramKeepsSentinel(o) ==
    IF o.rc # "rc0" THEN <<>>
    ELSE Strip(JoinLines(SelectSeq(SplitLines(Strip(o.stdout)),
                                   LAMBDA l : ~IsMetadataLine(l))))

\* ask_engram once subprocess.run has returned (o.rc is rc0 or rc1).
ask_engram(o) ==
    IF o.rc # "rc0" \/ Contains(o.stdout, Sentinel) THEN <<>>
    ELSE Strip(JoinLines(SelectSeq(SplitLines(Strip(o.stdout)),
                                   LAMBDA l : ~IsMetadataLine(l))))

---------------------------------------------------------------------------
(* SpecPass: one evaluation pass in retrieval mode (engram_eval.py main) *)

\* QA items (category, gold answer); the question only travels to the engine
\* and the judge, whose replies are drawn freely.
QAItems ==
    {[category |-> "bugs", answer |-> <<"database", " ", "deadlock">>],
     [category |-> "patterns", answer |-> <<"T", "h", "e">>]}

Datasets == UNION {[1..n -> QAItems] : n \in 0..MaxItems}

\* The improvement loop is not running (SpecPass does not run it).
LoopIdle ==
    /\ maxIter = 0
    /\ target = 0
    /\ iteration = 0
    /\ threshold = ThresholdInit
    /\ top_k = TopKInit
    /\ history = <<>>
    /\ curJudge = 0
    /\ applied = <<>>
    /\ chunkOk = FALSE
    /\ searchRs = <<"chunk1000">>
    /\ promptsRs = <<"NoExplain5">>
    /\ loopResults = NoFile
    /\ raised = NoException
    /\ evalCount = 0
    /\ buildCount = 0
    /\ embedLog = <<>>
    /\ stratLog = <<>>

\* The state at line 386: configuration checked, dataset loaded and filtered.
InitPass ==
    /\ pc = "item"
    /\ LoopIdle
    /\ config = ConfigOk
    /\ qa_pairs \in Datasets
    /\ use_judge \in BOOLEAN
    /\ idx = 0
    /\ f1_by_cat = [c \in Categories |-> <<>>]
    /\ judge_by_cat = [c \in Categories |-> <<>>]
    /\ askLog = <<>>
    /\ judgeCalls = 0
    /\ results = [written |-> FALSE]
    /\ lastItem = NoItem
    /\ ScoreIdle
    /\ BenchIdle

loopData == <<maxIter, target, iteration, threshold, top_k, history, curJudge,
              applied, chunkOk, searchRs, promptsRs, loopResults, evalCount,
              buildCount, embedLog, stratLog, config>>

\* if args.use_judge and api_key
Judging == use_judge /\ config.api_key

\* One turn of "for i, qa in enumerate(qa_pairs)" in retrieval mode: ask,
\* score, judge.
EvalItem ==
    /\ pc = "item"
    /\ ~config.full_context
    /\ idx < Len(qa_pairs)
    /\ LET qa == qa_pairs[idx + 1] IN
       \E o \in AskOutcomes :
         /\ askLog' = Append(askLog, o.rc)
         /\ IF o.rc = "TimeoutExpired"
            THEN /\ Crash(o.rc)
                 /\ UNCHANGED <<idx, f1_by_cat, judge_by_cat, judgeCalls,
                                lastItem>>
            ELSE LET prediction == ask_engram(o)
                     f1 == token_f1(prediction, qa.answer)
                 IN
                 /\ f1_by_cat' = [f1_by_cat EXCEPT ![qa.category] =
                                    Append(@, f1)]
                 \* r: how the judge's remote call ends (pinned when no
                 \* call is made)
                 /\ \E r \in RemoteOutcomes :
                      LET j == IF Judging
                               THEN llm_judge(prediction, gemini_call(r))
                               ELSE [score |-> Zero, called |-> FALSE]
                      IN
                      /\ Judging \/ r.kind = "no_text"
                      /\ j.called \/ r.kind = "no_text"
                      /\ judge_by_cat' =
                           IF Judging
                           THEN [judge_by_cat EXCEPT
                                   ![qa.category] = Append(@, j.score)]
                           ELSE judge_by_cat
                      /\ judgeCalls' = IF j.called THEN judgeCalls + 1
                                       ELSE judgeCalls
                      /\ lastItem' =
                           [done |-> TRUE, engine |-> o,
                            category |-> qa.category, gold |-> qa.answer,
                            prediction |-> prediction, f1 |-> f1,
                            judged |-> Judging, judge |-> j.score,
                            called |-> j.called,
                            reply |-> IF j.called THEN gemini_call(r)
                                      ELSE ""]
                 /\ idx' = idx + 1
                 /\ UNCHANGED <<pc, raised>>
    /\ UNCHANGED <<qa_pairs, use_judge, results, loopData, scoreVars,
                   benchVars>>

AllScores(by_cat) ==
    LET cats == CHOOSE sq \in [1..Cardinality(Categories) -> Categories] :
                    Range(sq) = Categories
        RECURSIVE Flat(_)
        Flat(k) == IF k = 0 THEN <<>> ELSE Flat(k - 1) \o by_cat[cats[k]]
    IN Flat(Cardinality(Categories))

\* The results dict with n counting the judge scores of a category.
ResultsOfCountsJudged(f1s, judges) ==
    [written |-> TRUE,
     overall_f1 |-> Avg(AllScores(f1s)),
     overall_judge |-> Avg(AllScores(judges)),
     by_category |-> [c \in {k \in Categories : f1s[k] # <<>>} |->
                        [f1 |-> Avg(f1s[c]), judge |-> Avg(judges[c]),
                         n |-> Len(judges[c])]]]

\* The results dict with an entry for every category, evaluated or not.
ResultsOfImputed(f1s, judges) ==
    [written |-> TRUE,
     overall_f1 |-> Avg(AllScores(f1s)),
     overall_judge |-> Avg(AllScores(judges)),
     by_category |-> [c \in Categories |->
                        [f1 |-> Avg(f1s[c]), judge |-> Avg(judges[c]),
                         n |-> Len(f1s[c])]]]

\* The results dict written to args.output.
ResultsOf(f1s, judges) ==
    [written |-> TRUE,
     overall_f1 |-> Avg(AllScores(f1s)),
     overall_judge |-> Avg(AllScores(judges)),
     by_category |-> [c \in {k \in Categories : f1s[k] # <<>>} |->
                        [f1 |-> Avg(f1s[c]), judge |-> Avg(judges[c]),
                         n |-> Len(f1s[c])]]]

\* After the loop: write the results file, then print_report, whose
\* not-found percentage divides by the number of QA pairs.
WriteResults ==
    /\ pc = "item"
    /\ idx = Len(qa_pairs)
    /\ results' = ResultsOf(f1_by_cat, judge_by_cat)
    /\ IF AllScores(f1_by_cat) = <<>>
       THEN /\ pc' = "crashed"
            /\ raised' = [type |-> "ZeroDivisionError", at |-> "report"]
       ELSE /\ pc' = "pass_done"
            /\ UNCHANGED raised
    /\ UNCHANGED <<qa_pairs, use_judge, idx, f1_by_cat, judge_by_cat, askLog,
                   judgeCalls, lastItem, loopData, scoreVars, benchVars>>

NextPass ==
    \/ EvalItem
    \/ WriteResults

SpecPass == InitPass /\ [][NextPass]_vars

RECURSIVE TotalLen(_, _)
TotalLen(by_cat, cats) ==
    IF cats = {} THEN 0
    ELSE LET c == CHOOSE x \in cats : TRUE
         IN Len(by_cat[c]) + TotalLen(by_cat, cats \ {c})

\* C10: an engine invocation that times out fails its own QA item only: the
\* item is scored (with the empty prediction), the pass does not end there
\* and goes on to write its result.
C10_TimeoutFailsItemOnly ==
    /\ TotalLen(f1_by_cat, Categories) = Len(askLog)
    /\ \A i \in 1..Len(askLog) :
         askLog[i] = "TimeoutExpired" => ~(pc = "crashed" /\ raised.at = "item")

---------------------------------------------------------------------------
(* Properties of the engine client, the judge and the results of a pass *)

\* The engine run o ended without a usable answer.
EngineFailed(o) == o.rc = "rc1" \/ Contains(o.stdout, Sentinel)

\* C11: an engine invocation that exits with a non-zero code, or whose
\* standard output contains the not-found sentinel, returns the empty
\* prediction and raises nothing: no invocation that came back with an exit
\* code is where the pass died.
C11_FailedAskGivesEmptyPrediction ==
    /\ (lastItem.done /\ EngineFailed(lastItem.engine))
           => lastItem.prediction = <<>>
    /\ (pc = "crashed" /\ raised.at = "item")
           => Last(askLog) \notin {"rc0", "rc1"}

C11_Witness ==
    /\ pc = "pass_done"
    /\ askLog[1] = "rc1"
    /\ lastItem.engine.rc = "rc0"
    /\ Contains(lastItem.engine.stdout, Sentinel)
    /\ lastItem.prediction = <<>>

\* The engine's reply for the last item was the not-found sentinel.
GotSentinel ==
    /\ lastItem.done
    /\ lastItem.engine.rc = "rc0"
    /\ Contains(lastItem.engine.stdout, Sentinel)

\* If the judge was asked about the last item, it answered 0.0 and made no
\* remote call.
ShortCircuited ==
    lastItem.judged => (lastItem.judge = Zero /\ ~lastItem.called)

\* C12 as stated: when the engine returns the not-found sentinel the
\* prediction is the empty string, its token F1 is 0.0, and the judge
\* returns 0.0 without a remote call.
C12_SentinelScoresZero ==
    GotSentinel =>
        /\ lastItem.prediction = <<>>
        /\ lastItem.f1 = Zero
        /\ ShortCircuited

\* C12, amended: when the engine returns the not-found sentinel the
\* prediction is the empty string and the judge returns 0.0 without a
\* remote call; the token F1 is 0.0 unless the gold answer normalizes to
\* no tokens, and then it is 1.0.  llm_judge makes no remote call for any
\* prediction that is empty or contains the sentinel.
C12_SentinelShortCircuits ==
    /\ GotSentinel =>
         /\ lastItem.prediction = <<>>
         /\ lastItem.f1 = (IF Split(normalize_answer(lastItem.gold)) = <<>>
                           THEN One ELSE Zero)
         /\ ShortCircuited
    /\ (lastItem.done /\ lastItem.prediction = <<>>) => ~lastItem.called
    /\ judgeCalls <= Len(askLog)
    /\ \A resp \in JudgeResponses :
         /\ llm_judge(<<Sentinel>>, resp) = [score |-> Zero, called |-> FALSE]
         /\ llm_judge(<<"cache", "\n", Sentinel>>, resp)
              = [score |-> Zero, called |-> FALSE]

C12_Witness ==
    /\ pc = "pass_done"
    /\ judgeCalls > 0
    /\ GotSentinel
    /\ lastItem.judged
    /\ lastItem.f1 = One

\* Replies that say YES or say NO.
VerdictReplies == {"YES", "NO"}

\* C13: when the remote judge call ends in a transport error, a parse error,
\* an empty reply, or a text that is neither YES nor NO, llm_judge returns
\* 0.0 and raises nothing, and the pass goes on with the next item.
C13_UnusableReplyScoresZero ==
    /\ pc = "crashed" => raised.type \in {"TimeoutExpired", "ZeroDivisionError"}
    /\ (lastItem.done /\ lastItem.called
         /\ lastItem.reply \notin VerdictReplies)
           => lastItem.judge = Zero

\* The last item is the scenario: gold "database deadlock", prediction
\* "A database deadlock caused the outage".
IsDeadlockScenario ==
    /\ lastItem.done
    /\ lastItem.category = "bugs"
    /\ lastItem.gold = <<"database", " ", "deadlock">>
    /\ lastItem.prediction =
         <<"A", " ", "database", " ", "deadlock", " ", "caused", " ",
           "t", "h", "e", " ", "outage">>

\* A finished pass that held this one item only.
OnlyDeadlockScenario ==
    results.written /\ Len(qa_pairs) = 1 /\ IsDeadlockScenario

\* C19 as stated: for gold "database deadlock" and prediction "A database
\* deadlock caused the outage" token_f1 is 1.0, and a run of this item alone
\* reports a bugs average F1 of 100.0.
C19_ScenarioScoresOne ==
    /\ IsDeadlockScenario => lastItem.f1 = One
    /\ OnlyDeadlockScenario => results.by_category["bugs"].f1 = Frac(100, 1)

\* C19, amended: for that gold and prediction token_f1 is 2/3 (precision
\* 2/4, recall 2/2), and a run of this item alone reports a bugs average F1
\* of 200/3, about 66.7.
C19_ScenarioScoresTwoThirds ==
    /\ IsDeadlockScenario => lastItem.f1 = Frac(2, 3)
    /\ OnlyDeadlockScenario =>
         /\ results.by_category["bugs"] =
              [f1 |-> Frac(200, 3),
               judge |-> Avg(judge_by_cat["bugs"]), n |-> 1]
         /\ results.overall_f1 = Frac(200, 3)

C19_Witness ==
    /\ pc = "pass_done"
    /\ OnlyDeadlockScenario

\* The QA items of category c evaluated in the pass.
EvaluatedIn(c) == {i \in 1..idx : qa_pairs[i].category = c}

RECURSIVE WeightedSum(_, _, _)
\* Sum over the categories cats of n times the category's average.
WeightedSum(by_category, cats, field) ==
    IF cats = {} THEN Zero
    ELSE LET c == CHOOSE x \in cats : TRUE
             term == FracMul(IF field = "f1" THEN by_category[c].f1
                             ELSE by_category[c].judge,
                             Frac(by_category[c].n, 1))
         IN FracAdd(term, WeightedSum(by_category, cats \ {c}, field))

\* C20: in every result of a pass overall_f1 is the average of the
\* by_category f1 values weighted by each category's n, and overall_judge
\* likewise when judging is on (stated as overall * sum of n = sum of
\* n * average, which also covers the pass without items); by_category
\* holds exactly the categories with at least one evaluated item, each with
\* its number of items, and nothing for a category without items.
C20_OverallIsWeightedAverage ==
    results.written =>
        LET cats == DOMAIN results.by_category
            total == Frac(idx, 1)
        IN /\ cats = {c \in Categories : EvaluatedIn(c) # {}}
           /\ \A c \in cats :
                results.by_category[c].n = Cardinality(EvaluatedIn(c))
           /\ FracMul(results.overall_f1, total)
                = WeightedSum(results.by_category, cats, "f1")
           /\ use_judge =>
                FracMul(results.overall_judge, total)
                  = WeightedSum(results.by_category, cats, "judge")

\* Two categories with different numbers of items and different averages.
C20_Witness ==
    /\ pc = "pass_done"
    /\ use_judge
    /\ DOMAIN results.by_category = Categories
    /\ results.by_category["bugs"].n # results.by_category["patterns"].n
    /\ results.by_category["bugs"].f1 # results.by_category["patterns"].f1
    /\ results.by_category["bugs"].judge
         # results.by_category["patterns"].judge

RECURSIVE SumOfN(_, _)
\* The n values of the listed categories, added up.
SumOfN(by_category, cats) ==
    IF cats = {} THEN 0
    ELSE LET c == CHOOSE x \in cats : TRUE
         IN by_category[c].n + SumOfN(by_category, cats \ {c})

\* C33: in every result a pass produces, by_category contains a category
\* iff at least one QA item of that category was evaluated, every listed
\* category has n >= 1, and the n values sum to the number of QA items
\* evaluated in the pass.
C33_CategoriesListedIffEvaluated ==
    results.written =>
        /\ \A c \in Categories :
              c \in DOMAIN results.by_category
                <=> \E i \in 1..idx : qa_pairs[i].category = c
        /\ DOMAIN results.by_category \subseteq Categories
        /\ \A c \in DOMAIN results.by_category :
              results.by_category[c].n >= 1
        /\ SumOfN(results.by_category, DOMAIN results.by_category) = idx
        /\ idx = Len(qa_pairs)

\* A pass without judging over three items of one category: the other
\* category is not listed.
C33_Witness ==
    /\ results.written
    /\ ~use_judge
    /\ idx = 3
    /\ DOMAIN results.by_category = {"bugs"}
    /\ results.by_category["bugs"].n = 3

---------------------------------------------------------------------------
(* SpecScore: normalize_answer and token_f1 applied to drawn texts *)

\* The pieces the drawn texts are made of.
Alphabet == {"a", "A", "n", " ", "_", "ø", ",", "é", "cache"}

Texts == UNION {[1..n -> Alphabet] : n \in 0..MaxText}

\* Gold answers to score a prediction against, besides the prediction itself.
Golds == {<<>>, <<"A">>, <<"cache">>, <<"cache", " ", "cache">>,
          <<"cache", " ", "deadlock">>}

passData == <<qa_pairs, use_judge, idx, f1_by_cat, judge_by_cat, askLog,
              judgeCalls, results, lastItem>>

InitScore ==
    /\ pc = "score"
    /\ LoopIdle
    /\ config = ConfigOk
    /\ qa_pairs = <<>>
    /\ use_judge = FALSE
    /\ idx = 0
    /\ f1_by_cat = [c \in Categories |-> <<>>]
    /\ judge_by_cat = [c \in Categories |-> <<>>]
    /\ askLog = <<>>
    /\ judgeCalls = 0
    /\ results = [written |-> FALSE]
    /\ lastItem = NoItem
    /\ \E p \in Texts : \E g \in Golds \cup {p} :
         scoreArgs = [prediction |-> p, gold |-> g]
    /\ scoreF1 = NotScored
    /\ normLog = <<>>
    /\ AnalyzeIdle
    /\ BenchIdle

\* token_f1(prediction, gold)
CallTokenF1 ==
    /\ pc = "score"
    /\ scoreF1 = NotScored
    /\ scoreF1' = [done |-> TRUE,
                   value |-> token_f1(scoreArgs.prediction, scoreArgs.gold)]
    /\ UNCHANGED <<pc, raised, loopData, passData, scoreArgs, normLog,
                   analyzeVars, benchVars>>

\* normalize_answer(prediction), then normalize_answer of what it returned.
CallNormalize ==
    /\ pc = "score"
    /\ Len(normLog) < MaxCalls
    /\ normLog' = Append(normLog,
                         normalize_answer(IF normLog = <<>>
                                          THEN scoreArgs.prediction
                                          ELSE Last(normLog)))
    /\ UNCHANGED <<pc, raised, loopData, passData, scoreArgs, scoreF1,
                   analyzeVars, benchVars>>

NextScore ==
    \/ CallTokenF1
    \/ CallNormalize

SpecScore == InitScore /\ [][NextScore]_vars

\* The tokens token_f1 compares.
Tokens(text) == Split(normalize_answer(text))

\* C14: token_f1 returns a value in [0, 1] for every prediction and gold,
\* repeated tokens included.
C14_F1InUnitInterval ==
    scoreF1.done =>
        /\ scoreF1.value.den > 0
        /\ 0 <= scoreF1.value.num
        /\ scoreF1.value.num <= scoreF1.value.den

C14_Witness ==
    /\ scoreF1.done
    /\ scoreArgs.prediction = <<"cache", " ", "cache">>
    /\ scoreArgs.gold = <<"cache">>
    /\ scoreF1.value = Frac(2, 3)

\* C15: token_f1(x, x) is 1.0 for every x that normalizes to at least one
\* token, also when a token occurs more than once.
C15_SelfScoreIsOne ==
    (/\ scoreF1.done
     /\ scoreArgs.prediction = scoreArgs.gold
     /\ Tokens(scoreArgs.prediction) # <<>>)
        => scoreF1.value = One

\* C16: a prediction without tokens scores 0.0 against a gold with tokens
\* and 1.0 against a gold without tokens; a prediction with tokens scores
\* 0.0 against a gold without tokens.
C16_EmptySideScores ==
    scoreF1.done =>
        LET p == Tokens(scoreArgs.prediction)
            g == Tokens(scoreArgs.gold)
        IN /\ (p = <<>> /\ g # <<>>) => scoreF1.value = Zero
           /\ (p = <<>> /\ g = <<>>) => scoreF1.value = One
           /\ (p # <<>> /\ g = <<>>) => scoreF1.value = Zero

C16_Witness ==
    /\ scoreF1.done
    /\ scoreArgs.prediction = <<"a", ",", "n">>
    /\ scoreArgs.gold = <<"A">>
    /\ scoreF1.value = One

\* C17: normalize_answer is idempotent: applied to its own result it
\* returns that result, also when a stop-word touches a character that is
\* a word character for the stop-word pattern and is stripped afterwards.
C17_NormalizeIdempotent ==
    \A i \in 2..Len(normLog) : normLog[i] = normLog[1]

\* C34: token_f1 is symmetric in its two arguments: token_f1(p, g) equals
\* token_f1(g, p) for every prediction p and gold g, and both are
\* 2 * |common token set| / (len(p) + len(g)) when the common set is not
\* empty, so a verbose prediction against a short gold scores the same as
\* the short text against the verbose one.
C34_F1Symmetric ==
    scoreF1.done =>
        LET p == Tokens(scoreArgs.prediction)
            g == Tokens(scoreArgs.gold)
            common == Range(p) \cap Range(g)
        IN /\ scoreF1.value = token_f1(scoreArgs.gold, scoreArgs.prediction)
           /\ common # {} =>
                scoreF1.value = Frac(2 * Cardinality(common), Len(p) + Len(g))

\* A prediction of two tokens against a gold of one.
C34_Witness ==
    /\ scoreF1.done
    /\ scoreArgs.prediction = <<"cache", " ", "n">>
    /\ scoreArgs.gold = <<"cache">>
    /\ scoreF1.value = Frac(2, 3)
    /\ token_f1(scoreArgs.gold, scoreArgs.prediction) = Frac(2, 3)

---------------------------------------------------------------------------
(* SpecBench: the worker pool of a benchmark run (locomo_eval.py main) *)

\* Score dicts eval_conversation can return: category -> F1 scores.
ConvScores ==
    {(1 :> <<Frac(2, 3)>> @@ 2 :> <<>>),
     (1 :> <<Frac(2, 5), Frac(1, 2)>> @@ 2 :> <<One>>),
     (1 :> <<>> @@ 2 :> <<Zero>>)}

\* How process(conv) can end: it returns the score dict, or an engine call
\* of the conversation times out and the exception leaves process.
ProcessOutcomes ==
    {[kind |-> "returned", scores |-> s] : s \in ConvScores}
    \cup {[kind |-> "raised", scores |-> [c \in BenchCategories |-> <<>>]]}

\* The state at line 569: dataset loaded and cut, no task submitted yet.
InitBench ==
    /\ pc = "pool"
    /\ LoopIdle
    /\ config = ConfigOk
    /\ qa_pairs = <<>>
    /\ use_judge = FALSE
    /\ idx = 0
    /\ f1_by_cat = [c \in Categories |-> <<>>]
    /\ judge_by_cat = [c \in Categories |-> <<>>]
    /\ askLog = <<>>
    /\ judgeCalls = 0
    /\ results = [written |-> FALSE]
    /\ lastItem = NoItem
    /\ ScoreIdle
    /\ convResults \in UNION {[1..n -> ProcessOutcomes] : n \in 0..MaxConvs}
    /\ workers \in 1..MaxWorkers
    /\ convState = [i \in 1..Len(convResults) |-> "queued"]
    /\ merged = 0
    /\ all_scores = [c \in BenchCategories |-> <<>>]
    /\ completionLog = <<>>
    /\ benchOut = [written |-> FALSE]
    /\ ConvIdle

Running == {j \in 1..Len(convState) : convState[j] = "running"}

\* A free worker thread takes the oldest queued task of pool.map.
StartConv(i) ==
    /\ pc = "pool"
    /\ convState[i] = "queued"
    /\ \A j \in 1..(i - 1) : convState[j] # "queued"
    /\ Cardinality(Running) < workers
    /\ convState' = [convState EXCEPT ![i] = "running"]
    /\ UNCHANGED <<pc, raised, loopData, passData, scoreVars, convResults,
                   workers, merged, all_scores, completionLog, benchOut,
                   convVars>>

\* process(conv) ends in its worker thread.
FinishConv(i) ==
    /\ pc = "pool"
    /\ convState[i] = "running"
    /\ convState' = [convState EXCEPT ![i] = "done"]
    /\ completionLog' = Append(completionLog, i)
    /\ UNCHANGED <<pc, raised, loopData, passData, scoreVars, convResults,
                   workers, merged, all_scores, benchOut, convVars>>

\* The for-loop taking the result of whichever conversation finished next.
MergeAsCompleted ==
    /\ pc = "pool"
    /\ merged < Len(completionLog)
    /\ LET r == convResults[completionLog[merged + 1]] IN
       IF r.kind = "raised"
       THEN /\ Crash("TimeoutExpired")
            /\ UNCHANGED <<merged, all_scores>>
       ELSE /\ all_scores' = [c \in BenchCategories |->
                                 all_scores[c] \o r.scores[c]]
            /\ merged' = merged + 1
            /\ UNCHANGED <<pc, raised>>
    /\ UNCHANGED <<loopData, passData, scoreVars, convResults, workers,
                   convState, completionLog, benchOut, convVars>>

\* One turn of "for scores in pool.map(process, dataset)": pool.map yields
\* the results in the order of the dataset, waiting for each; an exception
\* of process is raised again here.
MergeNext ==
    /\ pc = "pool"
    /\ merged < Len(convResults)
    /\ convState[merged + 1] = "done"
    /\ LET r == convResults[merged + 1] IN
       IF r.kind = "raised"
       THEN /\ Crash("TimeoutExpired")
            /\ UNCHANGED <<merged, all_scores>>
       ELSE /\ all_scores' = [c \in BenchCategories |->
                                 all_scores[c] \o r.scores[c]]
            /\ merged' = merged + 1
            /\ UNCHANGED <<pc, raised>>
    /\ UNCHANGED <<loopData, passData, scoreVars, convResults, workers,
                   convState, completionLog, benchOut, convVars>>

\* flat of print_report, taken category by category.
FlatScores(scores) ==
    LET RECURSIVE Flat(_)
        Flat(cats) == IF cats = {} THEN <<>>
                      ELSE LET c == CHOOSE x \in cats :
                                        \A y \in cats : x <= y
                           IN scores[c] \o Flat(cats \ {c})
    IN Flat(BenchCategories)

\* The scores file of the run and the averages print_report shows.
BenchReport(scores, n) ==
    [written |-> TRUE,
     scores |-> scores,
     n_convs |-> n,
     overall |-> Avg(FlatScores(scores)),
     by_category |-> [c \in {k \in BenchCategories : scores[k] # <<>>} |->
                        [avg |-> Avg(scores[c]), n |-> Len(scores[c])]]]

\* After the pool: write the scores file, print the report.
WriteScores ==
    /\ pc = "pool"
    /\ merged = Len(convResults)
    /\ benchOut' = BenchReport(all_scores, Len(convResults))
    /\ pc' = "bench_done"
    /\ UNCHANGED <<raised, loopData, passData, scoreVars, convResults,
                   workers, convState, merged, all_scores, completionLog,
                   convVars>>

NextBench ==
    \/ \E i \in 1..Len(convState) : StartConv(i)
    \/ \E i \in 1..Len(convState) : FinishConv(i)
    \/ MergeNext
    \/ WriteScores

SpecBench == InitBench /\ [][NextBench]_vars

---------------------------------------------------------------------------
(* SpecAggregate: a run of either evaluation program *)

InitAggregate ==
    \/ InitPass
    \/ InitBench

NextAggregate ==
    \/ NextPass
    \/ NextBench

SpecAggregate == InitAggregate /\ [][NextAggregate]_vars

\* The orders n results can come in.
Orders(n) == Permutations(1..n)

InOrder(seq, p) == [i \in 1..Len(seq) |-> seq[p[i]]]

RECURSIVE MergeAll(_)
\* The scores of conversation results taken one after the other.
MergeAll(rs) ==
    IF rs = <<>> THEN [c \in BenchCategories |-> <<>>]
    ELSE LET rest == MergeAll(Tail(rs))
         IN [c \in BenchCategories |-> Head(rs).scores[c] \o rest[c]]

\* by_cat with the scores of category "bugs" appended in the order p and
\* those of the other category in the order q.
Reordered(by_cat, p, q) ==
    [c \in Categories |->
        [i \in 1..Len(by_cat[c]) |->
            by_cat[c][IF c = "bugs" THEN p[i] ELSE q[i]]]]

---------------------------------------------------------------------------
(* SpecConv: the engine calls of the conversations of a benchmark run *)
(* (locomo_eval.py eval_conversation, run by the workers of main)     *)

\* The conversations a dataset is made of.  Nothing keeps two entries of a
\* dataset from carrying the same sample_id.
Conversations ==
    {[sample_id |-> "conv-26",
      qa |-> <<[question |-> "q", answer |-> "gold"],
               [question |-> "q", answer |-> ""],
               [question |-> "q", answer |-> "gold"]>>],
     [sample_id |-> "conv-30",
      qa |-> <<[question |-> "q", answer |-> "gold"]>>]}

\* project = f"locomo-{sample_id}"
Project(sample_id) == <<"locomo-", sample_id>>

\* What EngramRunner._run can do: the engine exits with code 0 or with
\* another code, or subprocess.run raises TimeoutExpired.
EngineOutcomes == {"rc0", "rc1", "TimeoutExpired"}

\* if not question or not gold: continue
Askable(qa) == qa.question # "" /\ qa.answer # ""

\* The next QA pair after position k that is asked; 0 when the loop is over.
NextAskable(qa, k) ==
    LET later == {j \in (k + 1)..Len(qa) : Askable(qa[j])}
    IN IF later = {} THEN 0
       ELSE CHOOSE j \in later : \A m \in later : j <= m

\* Mutant of LeaveTry: no finally clause, an exception leaves at once.
LeaveTryNoFinally(o, next) == IF IsException(o) THEN "end" ELSE next

\* try: ... finally: an exception raised by a call of the try block goes to
\* the finally clause; a call that returns goes on to the next statement.
LeaveTry(o, next) == IF IsException(o) THEN "forget" ELSE next

\* The exception that is on its way out of eval_conversation.
Pending(exc, o) == IF IsException(o) THEN o ELSE exc

\* line 393: nothing of the conversation has been sent to the engine.
NotStarted == [at |-> "ingest", k |-> 0, asks |-> 0, forgets |-> 0,
               exc |-> "none"]

\* The state at line 569, with the conversations of the dataset.
InitConv ==
    /\ pc = "pool"
    /\ LoopIdle
    /\ config = ConfigOk
    /\ qa_pairs = <<>>
    /\ use_judge = FALSE
    /\ idx = 0
    /\ f1_by_cat = [c \in Categories |-> <<>>]
    /\ judge_by_cat = [c \in Categories |-> <<>>]
    /\ askLog = <<>>
    /\ judgeCalls = 0
    /\ results = [written |-> FALSE]
    /\ lastItem = NoItem
    /\ ScoreIdle
    /\ convResults = <<>>
    /\ workers \in 1..MaxWorkers
    /\ dataset \in UNION {[1..n -> Conversations] : n \in 0..MaxDataset}
    /\ convState = [i \in 1..Len(dataset) |-> "queued"]
    /\ engine = [i \in 1..Len(dataset) |-> NotStarted]
    /\ merged = 0
    /\ all_scores = [c \in BenchCategories |-> <<>>]
    /\ completionLog = <<>>
    /\ benchOut = [written |-> FALSE]

\* The ingestion of the selected mode: the add calls of ingest_facts or
\* ingest_raw, or ingest with the raw fallback.  A failed call is a warning.
Ingest(i) ==
    /\ pc = "pool"
    /\ convState[i] = "running"
    /\ engine[i].at = "ingest"
    /\ \E o \in EngineOutcomes :
         engine' = [engine EXCEPT ![i] =
                      [@ EXCEPT !.at = LeaveTry(o, "embed"),
                                !.exc = Pending(@, o)]]
    /\ UNCHANGED <<pc, raised, loopData, passData, scoreVars, convResults,
                   workers, convState, merged, all_scores, completionLog,
                   benchOut, dataset>>

\* engram.embed(project), and graph_build when the graph option is on; the
\* results are dropped.  Then the for-loop reaches its first asked pair.
Embed(i) ==
    /\ pc = "pool"
    /\ convState[i] = "running"
    /\ engine[i].at = "embed"
    /\ \E o \in EngineOutcomes :
         LET first == NextAskable(dataset[i].qa, 0) IN
         engine' = [engine EXCEPT ![i] =
                      [@ EXCEPT !.at = LeaveTry(o, IF first = 0 THEN "forget"
                                                   ELSE "ask"),
                                !.k = IF IsException(o) THEN @ ELSE first,
                                !.exc = Pending(@, o)]]
    /\ UNCHANGED <<pc, raised, loopData, passData, scoreVars, convResults,
                   workers, convState, merged, all_scores, completionLog,
                   benchOut, dataset>>

\* engram.ask for the QA pair at position k and its score, then on to the
\* next asked pair.
Ask(i) ==
    /\ pc = "pool"
    /\ convState[i] = "running"
    /\ engine[i].at = "ask"
    /\ \E o \in EngineOutcomes :
         LET next == NextAskable(dataset[i].qa, engine[i].k) IN
         engine' = [engine EXCEPT ![i] =
                      [@ EXCEPT !.at = LeaveTry(o, IF next = 0 THEN "forget"
                                                   ELSE "ask"),
                                !.k = IF IsException(o) THEN @ ELSE next,
                                !.asks = @ + 1,
                                !.exc = Pending(@, o)]]
    /\ UNCHANGED <<pc, raised, loopData, passData, scoreVars, convResults,
                   workers, convState, merged, all_scores, completionLog,
                   benchOut, dataset>>

\* finally: engram.forget(project); then the scores are returned or the
\* pending exception goes on, and the worker is free.
Forget(i) ==
    /\ pc = "pool"
    /\ convState[i] = "running"
    /\ engine[i].at = "forget"
    /\ \E o \in EngineOutcomes :
         engine' = [engine EXCEPT ![i] =
                      [@ EXCEPT !.at = "end",
                                !.forgets = @ + 1,
                                !.exc = Pending(@, o)]]
    /\ convState' = [convState EXCEPT ![i] = "done"]
    /\ UNCHANGED <<pc, raised, loopData, passData, scoreVars, convResults,
                   workers, merged, all_scores, completionLog, benchOut,
                   dataset>>

NextConv ==
    \/ \E i \in 1..Len(convState) : StartConv(i)
    \/ \E i \in 1..Len(convState) : Ingest(i)
    \/ \E i \in 1..Len(convState) : Embed(i)
    \/ \E i \in 1..Len(convState) : Ask(i)
    \/ \E i \in 1..Len(convState) : Forget(i)

\* Every engine call returns or times out, and the pool keeps its threads
\* running: a conversation that can take a step takes one.
SpecConv == InitConv /\ [][NextConv]_vars /\ WF_vars(NextConv)

\* Conversation i has been taken by a worker.
Started(i) == i <= Len(dataset) /\ convState[i] # "queued"

\* eval_conversation of conversation i is over and its forget was sent.
Forgotten(i) ==
    i <= Len(dataset) /\ engine[i].forgets = 1 /\ convState[i] = "done"

\* C21: for every conversation whose evaluation is started, forget(project)
\* is issued exactly once, after the last ask of the conversation, whether
\* ingestion, embedding, asking or scoring returned or raised: it is never
\* issued twice, it has been issued once when eval_conversation is over, no
\* ask follows it, and every started conversation comes to it.
C21_ForgetExactlyOnce ==
    /\ [](\A i \in 1..Len(dataset) :
            /\ engine[i].forgets <= 1
            /\ engine[i].at = "end" => engine[i].forgets = 1
            /\ engine[i].forgets = 1 => engine[i].at = "end")
    /\ [][\A i \in 1..Len(dataset) :
            engine'[i].asks # engine[i].asks => engine'[i].forgets = 0]_vars
    /\ \A i \in 1..MaxDataset :
         Started(i) ~> Forgotten(i)

\* One conversation was forgotten after an exception of its ingestion,
\* without any ask; another after all its asks returned.
C21_Witness ==
    \E i, j \in 1..Len(dataset) :
      /\ engine[i].at = "end" /\ engine[i].exc # "none"
      /\ engine[i].asks = 0 /\ engine[i].forgets = 1
      /\ engine[j].at = "end" /\ engine[j].exc = "none"
      /\ engine[j].asks = 2 /\ engine[j].forgets = 1

\* Conversation j has sent its first ingestion call and not yet its forget.
Owns(j) ==
    convState[j] = "running" /\ engine[j].at \in {"embed", "ask", "forget"}

\* C23: with several workers a project namespace is owned by at most one
\* conversation evaluation at a time: no conversation sends an engine call
\* (add, embed, ask, forget) for a project while another conversation is
\* between its first ingestion call and its forget on the same project,
\* whatever the dataset.
C23_ProjectOwnedByOne ==
    [][\A i, j \in 1..Len(dataset) :
         (i # j /\ engine'[i] # engine[i] /\ Owns(j))
            => Project(dataset[i].sample_id) # Project(dataset[j].sample_id)]_vars

---------------------------------------------------------------------------
(* SpecStart: an evaluation pass from its first line (engram_eval.py main), *)
(* in retrieval or in full-context mode                                      *)

\* The dataset files a start is followed through.
StartDatasets == {d \in Datasets : Len(d) <= MaxStartItems}

\* How the remote call of ask_full_context can end.
FullContextOutcomes ==
    {[kind |-> "text", text |-> t] :
        t \in {<<"database", " ", "deadlock", "\n">>, <<"Not found.">>,
               <<" ">>}}
    \cup {[kind |-> "no_text"], [kind |-> "URLError"]}

\* "not found" in ans.lower()
SaysNotFound(ans) == Contains(ans, "Not found.") \/ Contains(ans, Sentinel)

\* ask_full_context: the stripped text of the first non-blank text part,
\* "" when it says not found, when there is none and for any exception.
ask_full_context(o) ==
    IF o.kind = "text" /\ Strip(o.text) # <<>>
    THEN IF SaysNotFound(Strip(o.text)) THEN <<>> ELSE Strip(o.text)
    ELSE <<>>

\* main() at line 320: nothing checked, nothing loaded.
InitStart ==
    /\ pc = "start"
    /\ LoopIdle
    /\ config \in Configs
    /\ qa_pairs = <<>>
    /\ use_judge \in BOOLEAN
    /\ idx = 0
    /\ f1_by_cat = [c \in Categories |-> <<>>]
    /\ judge_by_cat = [c \in Categories |-> <<>>]
    /\ askLog = <<>>
    /\ judgeCalls = 0
    /\ results = [written |-> FALSE]
    /\ lastItem = NoItem
    /\ ScoreIdle
    /\ BenchIdle

\* Lines 320 to 376: the checks of the binary, the dataset file and the
\* credential, each ending in sys.exit(1), and the loading of the dataset.
Startup ==
    /\ pc = "start"
    /\ IF StartupFails(config, use_judge)
       THEN /\ Crash("SystemExit")
            /\ UNCHANGED qa_pairs
       ELSE /\ pc' = "item"
            /\ qa_pairs' \in StartDatasets
            /\ UNCHANGED raised
    /\ UNCHANGED <<use_judge, idx, f1_by_cat, judge_by_cat, askLog,
                   judgeCalls, results, lastItem, loopData, scoreVars,
                   benchVars>>

\* One turn of "for i, qa in enumerate(qa_pairs)" in full-context mode: the
\* engine is not run.
EvalItemFullContext ==
    /\ pc = "item"
    /\ config.full_context
    /\ idx < Len(qa_pairs)
    /\ LET qa == qa_pairs[idx + 1] IN
       \E o \in FullContextOutcomes :
         LET prediction == ask_full_context(o)
             f1 == token_f1(prediction, qa.answer)
         IN
         /\ f1_by_cat' = [f1_by_cat EXCEPT ![qa.category] = Append(@, f1)]
         /\ \E r \in RemoteOutcomes :
              LET j == IF Judging
                       THEN llm_judge(prediction, gemini_call(r))
                       ELSE [score |-> Zero, called |-> FALSE]
              IN
              /\ j.called \/ r.kind = "no_text"
              /\ judge_by_cat' =
                   IF Judging
                   THEN [judge_by_cat EXCEPT
                           ![qa.category] = Append(@, j.score)]
                   ELSE judge_by_cat
              /\ judgeCalls' = IF j.called THEN judgeCalls + 1
                               ELSE judgeCalls
              /\ lastItem' =
                   [done |-> TRUE,
                    engine |-> [rc |-> "none", stdout |-> <<>>],
                    category |-> qa.category, gold |-> qa.answer,
                    prediction |-> prediction, f1 |-> f1,
                    judged |-> Judging, judge |-> j.score,
                    called |-> j.called,
                    reply |-> IF j.called THEN gemini_call(r) ELSE ""]
         /\ idx' = idx + 1
    /\ UNCHANGED <<pc, raised, qa_pairs, use_judge, askLog, results,
                   loopData, scoreVars, benchVars>>

NextStart ==
    \/ Startup
    \/ EvalItem
    \/ EvalItemFullContext
    \/ WriteResults

SpecStart == InitStart /\ [][NextStart]_vars

\* The engine binary, the dataset file, or the credential the selected mode
\* needs is missing.
MissingConfig ==
    \/ ~config.binary
    \/ ~config.dataset
    \/ (use_judge /\ ~config.api_key)
    \/ (config.full_context /\ ~config.api_key)

\* C24: when the engine binary is missing, the dataset file is missing, or
\* the API credential required by the selected mode (judge or full-context)
\* is missing, the process exits with a non-zero status before any QA item
\* is evaluated and before any results file is written.
C24_BadConfigExitsBeforeItems ==
    MissingConfig =>
        /\ pc \in {"start", "crashed"}
        /\ pc = "crashed" => (raised.type = "SystemExit" /\ ExitStatus # 0)
        /\ idx = 0
        /\ lastItem = NoItem
        /\ askLog = <<>>
        /\ judgeCalls = 0
        /\ ~results.written

\* The pass has ended on the credential check of the full-context mode.
C24_Witness ==
    /\ pc = "crashed"
    /\ ExitStatus = 1
    /\ config.binary /\ config.dataset
    /\ config.full_context /\ ~use_judge /\ ~config.api_key
    /\ ~results.written

---------------------------------------------------------------------------
(* SpecAnalyze: analyze_failures applied to drawn results                 *)
(* (improvement_loop.py).  F1 values and gaps are in tenths of a point.   *)

\* ceiling = 67.9
Ceiling == 679

\* Category names of a results file.
ResultCategories == {"decisions", "solutions", "patterns", "bugs"}

\* The stats of a category as the results file holds them; the "f1" key
\* may be missing.
CategoryStats ==
    {[f1 |-> 0, judge |-> 0], [f1 |-> 500, judge |-> 10],
     [f1 |-> 1000, judge |-> 10], [judge |-> 10]}

\* by_category of a results file: (category, stats) in the order of the
\* file, every category once; empty when the file or the key is missing.
ByCategories ==
    {b \in UNION {[1..n -> ResultCategories \X CategoryStats] :
                     n \in 0..MaxCats} :
        \A i, j \in 1..Len(b) : i # j => b[i][1] # b[j][1]}

\* stats.get("f1", 0)
GetF1(stats) == IF "f1" \in DOMAIN stats THEN stats.f1 ELSE 0

\* The entry analyze_failures builds for a category.
AnalysisEntry(item) ==
    LET gap == Ceiling - GetF1(item[2])
    IN [cat |-> item[1], f1 |-> GetF1(item[2]), judge |-> item[2].judge,
        gap_to_ceiling |-> gap, priority |-> gap]

\* Mutant of SortKey: the smallest gap first.
SortKeyAscending(entry) == entry.priority

\* key=lambda x: -x[1]["priority"]
SortKey(entry) == -entry.priority

RECURSIVE InsertSorted(_, _)
\* x put behind every element whose key is not larger than its own.
InsertSorted(x, sorted) ==
    IF sorted = <<>> THEN <<x>>
    ELSE IF SortKey(Head(sorted)) <= SortKey(x)
    THEN <<Head(sorted)>> \o InsertSorted(x, Tail(sorted))
    ELSE <<x>> \o sorted

RECURSIVE SortedByKey(_)
\* sorted(items, key=...): ascending by key, equal keys in their first
\* order (the sort is stable).
SortedByKey(items) ==
    IF items = <<>> THEN <<>>
    ELSE InsertSorted(items[Len(items)],
                      SortedByKey(SubSeq(items, 1, Len(items) - 1)))

\* analyze_failures: the analysis of every category and the priority list.
analyze_failures(by_category) ==
    LET entries == [i \in 1..Len(by_category) |->
                       AnalysisEntry(by_category[i])]
        sorted_cats == SortedByKey(entries)
    IN [done |-> TRUE,
        by_category |-> entries,
        sorted_priorities |-> [i \in 1..Len(sorted_cats) |->
                                  sorted_cats[i].cat]]

InitAnalyze ==
    /\ pc = "analyze"
    /\ LoopIdle
    /\ config = ConfigOk
    /\ qa_pairs = <<>>
    /\ use_judge = FALSE
    /\ idx = 0
    /\ f1_by_cat = [c \in Categories |-> <<>>]
    /\ judge_by_cat = [c \in Categories |-> <<>>]
    /\ askLog = <<>>
    /\ judgeCalls = 0
    /\ results = [written |-> FALSE]
    /\ lastItem = NoItem
    /\ scoreArgs = [prediction |-> <<>>, gold |-> <<>>]
    /\ scoreF1 = NotScored
    /\ normLog = <<>>
    /\ stats_by_cat \in ByCategories
    /\ analysis = [done |-> FALSE]
    /\ AskIdle
    /\ CallsIdle
    /\ BenchIdle

\* analysis = analyze_failures(output_path, ...)
CallAnalyze ==
    /\ pc = "analyze"
    /\ ~analysis.done
    /\ analysis' = analyze_failures(stats_by_cat)
    /\ UNCHANGED <<pc, raised, loopData, passData, scoreArgs, scoreF1,
                   normLog, stats_by_cat, askVars, callVars, benchVars>>

NextAnalyze == CallAnalyze

SpecAnalyze == InitAnalyze /\ [][NextAnalyze]_vars

\* The position of category c in the results file.
PositionOf(c) == CHOOSE i \in 1..Len(stats_by_cat) : stats_by_cat[i][1] = c

\* gap(c) = ceiling - f1(c), f1 being 0 for a category without the key.
GapOf(c) ==
    LET stats == stats_by_cat[PositionOf(c)][2]
    IN Ceiling - (IF "f1" \in DOMAIN stats THEN stats.f1 ELSE 0)

\* C30: analyze_failures returns, for a result with categories C, a
\* priority list that is a permutation of C ordered by non-increasing gap,
\* where gap(c) = ceiling - f1(c) for the ceiling 67.9; categories with
\* equal gap keep their order of appearance in the result.
C30_PrioritiesSortedByGap ==
    analysis.done =>
        LET P == analysis.sorted_priorities IN
        /\ Len(P) = Len(stats_by_cat)
        /\ {P[i] : i \in 1..Len(P)} = {stats_by_cat[i][1] : i \in 1..Len(stats_by_cat)}
        /\ \A i, j \in 1..Len(P) :
             i < j =>
               /\ GapOf(P[i]) >= GapOf(P[j])
               /\ GapOf(P[i]) = GapOf(P[j]) =>
                     PositionOf(P[i]) < PositionOf(P[j])

\* Three categories: the one with the largest gap comes second in the
\* file, the two others have the same gap.
C30_Witness ==
    /\ analysis.done
    /\ Len(stats_by_cat) = 3
    /\ GapOf(stats_by_cat[1][1]) = GapOf(stats_by_cat[3][1])
    /\ GapOf(stats_by_cat[2][1]) > GapOf(stats_by_cat[1][1])
    /\ analysis.sorted_priorities =
          <<stats_by_cat[2][1], stats_by_cat[1][1], stats_by_cat[3][1]>>


---------------------------------------------------------------------------
(* SpecAsk: ask_engram / EngramRunner.ask applied to drawn engine outputs *)

MaxStdout == 4

\* What the engine prints, piece by piece: a word, blanks, line ends, the
\* two metadata markers and the sentinel.
StdoutPieces == {"cache", " ", "\n", "Sources:", "Hint:", Sentinel}

\* How subprocess.run(args, timeout=30) can end, for any printed text.
AskRuns ==
    {[rc |-> rc, stdout |-> out] :
        rc \in {"rc0", "rc1"},
        out \in UNION {[1..n -> StdoutPieces] : n \in 0..MaxStdout}}
    \cup {[rc |-> "TimeoutExpired", stdout |-> <<>>]}

InitAsk ==
    /\ pc = "ask"
    /\ LoopIdle
    /\ config = ConfigOk
    /\ qa_pairs = <<>>
    /\ use_judge = FALSE
    /\ idx = 0
    /\ f1_by_cat = [c \in Categories |-> <<>>]
    /\ judge_by_cat = [c \in Categories |-> <<>>]
    /\ askLog = <<>>
    /\ judgeCalls = 0
    /\ results = [written |-> FALSE]
    /\ lastItem = NoItem
    /\ scoreArgs = [prediction |-> <<>>, gold |-> <<>>]
    /\ scoreF1 = NotScored
    /\ normLog = <<>>
    /\ stats_by_cat = <<>>
    /\ analysis = [done |-> FALSE]
    /\ askRun \in AskRuns
    /\ askPrediction = NotAsked
    /\ CallsIdle
    /\ BenchIdle

\* pred = ask_engram(...): subprocess.run raises TimeoutExpired or returns,
\* and then the output is post-processed.
CallAskEngram ==
    /\ pc = "ask"
    /\ IF IsException(askRun.rc)
       THEN /\ Crash(askRun.rc)
            /\ UNCHANGED askPrediction
       ELSE /\ askPrediction' = [done |-> TRUE, text |-> ask_engram(askRun)]
            /\ pc' = "done"
            /\ UNCHANGED raised
    /\ UNCHANGED <<loopData, passData, scoreArgs, scoreF1, normLog,
                   stats_by_cat, analysis, askRun, callVars, benchVars>>

NextAsk == CallAskEngram

SpecAsk == InitAsk /\ [][NextAsk]_vars

\* l.startswith("Sources:") or l.startswith("Hint:"), as the claim reads it.
BeginsWithMarker(line) ==
    line # <<>> /\ (Head(line) = "Sources:" \/ Head(line) = "Hint:")

\* The lines that begin with neither marker, in their order.
WithoutMarkerLines(lines) == SelectSeq(lines, LAMBDA l : ~BeginsWithMarker(l))

\* The lines with something other than whitespace in them, each without the
\* whitespace at its two ends.
ContentLines(lines) ==
    LET stripped == [i \in 1..Len(lines) |-> Strip(lines[i])]
    IN SelectSeq(stripped, LAMBDA l : l # <<>>)

\* The ask succeeded: exit 0 and no sentinel in stdout.
AskSucceeded ==
    /\ askPrediction.done
    /\ askRun.rc = "rc0"
    /\ ~Contains(askRun.stdout, Sentinel)

\* C32 as stated: for a successful ask the prediction consists of exactly
\* the stdout lines that begin with neither "Sources:" nor "Hint:", in their
\* original order, none of them dropped.
C32_ExactlyTheUnmarkedLines ==
    AskSucceeded =>
        askPrediction.text =
            JoinLines(WithoutMarkerLines(SplitLines(askRun.stdout)))

\* C32: for a successful ask, whitespace is first removed from the two ends
\* of stdout; the lines of that text that begin with neither "Sources:" nor
\* "Hint:" are kept in their original order, and whitespace is removed from
\* the two ends of the joined result.  So the lines of the prediction that
\* have content are, up to whitespace at the line ends, exactly the lines
\* with content of the stripped stdout that begin with neither marker, in
\* order: no such line is dropped, and the prediction has no whitespace at
\* its ends.
C32_UnmarkedLinesUpToWhitespace ==
    AskSucceeded =>
        /\ ContentLines(SplitLines(askPrediction.text)) =
              ContentLines(WithoutMarkerLines(SplitLines(Strip(askRun.stdout))))
        /\ askPrediction.text = <<>> \/
              (~IsSpace(Head(askPrediction.text))
               /\ ~IsSpace(Last(askPrediction.text)))

\* An answer, a blank line and a "Sources:" line: the answer comes back, the
\* blank line and the marker line do not.
C32_Witness ==
    /\ AskSucceeded
    /\ askRun.stdout = <<"cache", "\n", "\n", "Sources:">>
    /\ askPrediction.text = <<"cache">>

---------------------------------------------------------------------------
(* SpecCalls: one call of eval_conversation, engine call by engine call *)

MaxSessions == 2

\* The sessions of a conversation before the first missing or empty one;
\* TRUE for a session whose turns have text.
SessionLists == UNION {[1..n -> BOOLEAN] : n \in 0..MaxSessions}

\* The arguments eval_conversation is called with.
EvalArgs ==
    {[called |-> TRUE, conv |-> c, sessions |-> ss, use_llm_ingest |-> li,
      use_fact_extract |-> fe, use_graph |-> g, gemini_api_key |-> key] :
        c \in Conversations, ss \in SessionLists, li \in BOOLEAN,
        fe \in BOOLEAN, g \in BOOLEAN, key \in BOOLEAN}

\* The branch of the if / elif / else at the head of the try block.
IngestionBranch(a) ==
    IF a.use_fact_extract /\ a.gemini_api_key THEN "facts"
    ELSE IF a.use_llm_ingest THEN "llm"
    ELSE "raw"

\* The next session after s that is stored: ingest_facts stores every
\* session, ingest_raw the sessions with text.  0 when there is none.
NextSession(a, branch, s) ==
    LET later == {j \in (s + 1)..Len(a.sessions) :
                     branch = "facts" \/ a.sessions[j]}
    IN IF later = {} THEN 0
       ELSE CHOOSE j \in later : \A m \in later : j <= m

\* Where eval_conversation is once s sessions have been gone through: at
\* the next add, or at the embed call.
AfterSession(a, branch, s) ==
    IF NextSession(a, branch, s) = 0 THEN "embed" ELSE branch

\* Mutant of AfterIngest: no raw ingestion after a failed ingest.
AfterIngestNoFallback(a, o) == "embed"

\* success = engram.ingest(project); if not success: ingest_raw(...)
AfterIngest(a, o) ==
    IF o = "rc0" THEN "embed" ELSE AfterSession(a, "raw", 0)

\* The for-loop over conv["qa"], from its first asked pair on.
FirstAsk(a) == IF NextAskable(a.conv.qa, 0) = 0 THEN "forget" ELSE "ask"

\* if use_graph: engram.graph_build(project)
AfterEmbed(a) == IF a.use_graph THEN "graph" ELSE FirstAsk(a)

\* One engine call: it is put on the record, and an exception of
\* subprocess.run is on its way to the finally clause.
Called(r, call, o, next) ==
    [r EXCEPT !.at = LeaveTry(o, next),
              !.calls = Append(@, [call |-> call, o |-> o]),
              !.exc = Pending(@, o)]

InitCalls ==
    /\ pc = "conv"
    /\ LoopIdle
    /\ config = ConfigOk
    /\ qa_pairs = <<>>
    /\ use_judge = FALSE
    /\ idx = 0
    /\ f1_by_cat = [c \in Categories |-> <<>>]
    /\ judge_by_cat = [c \in Categories |-> <<>>]
    /\ askLog = <<>>
    /\ judgeCalls = 0
    /\ results = [written |-> FALSE]
    /\ lastItem = NoItem
    /\ scoreArgs = [prediction |-> <<>>, gold |-> <<>>]
    /\ scoreF1 = NotScored
    /\ normLog = <<>>
    /\ stats_by_cat = <<>>
    /\ analysis = [done |-> FALSE]
    /\ AskIdle
    /\ evalArgs \in EvalArgs
    /\ evalRun = [at |-> "try", s |-> 0, k |-> 0, calls |-> <<>>,
                  exc |-> "none"]
    /\ BenchIdle

callRest == <<pc, raised, loopData, passData, scoreArgs, scoreF1, normLog,
              stats_by_cat, analysis, askVars, evalArgs, benchVars>>

\* try: the ingestion branch is chosen; no engine call yet.
EnterTry ==
    /\ pc = "conv"
    /\ evalRun.at = "try"
    /\ LET branch == IngestionBranch(evalArgs) IN
       evalRun' = [evalRun EXCEPT !.at = IF branch = "llm" THEN "llm"
                                        ELSE AfterSession(evalArgs, branch, 0)]
    /\ UNCHANGED callRest

\* ingest_facts: one engram.add per session, facts or raw text.
AddFacts ==
    /\ pc = "conv"
    /\ evalRun.at = "facts"
    /\ \E o \in EngineOutcomes :
         LET j == NextSession(evalArgs, "facts", evalRun.s) IN
         evalRun' = [Called(evalRun, "add", o,
                            AfterSession(evalArgs, "facts", j))
                       EXCEPT !.s = j]
    /\ UNCHANGED callRest

\* engram.ingest(project), and the choice of the raw fallback.
LlmIngest ==
    /\ pc = "conv"
    /\ evalRun.at = "llm"
    /\ \E o \in EngineOutcomes :
         evalRun' = Called(evalRun, "ingest", o, AfterIngest(evalArgs, o))
    /\ UNCHANGED callRest

\* ingest_raw: one engram.add per session with text.
AddRaw ==
    /\ pc = "conv"
    /\ evalRun.at = "raw"
    /\ \E o \in EngineOutcomes :
         LET j == NextSession(evalArgs, "raw", evalRun.s) IN
         evalRun' = [Called(evalRun, "add", o,
                            AfterSession(evalArgs, "raw", j))
                       EXCEPT !.s = j]
    /\ UNCHANGED callRest

\* engram.embed(project); its result is dropped.
EmbedCall ==
    /\ pc = "conv"
    /\ evalRun.at = "embed"
    /\ \E o \in EngineOutcomes :
         evalRun' = Called(evalRun, "embed", o, AfterEmbed(evalArgs))
    /\ UNCHANGED callRest

\* engram.graph_build(project); its result is dropped.
GraphBuildCall ==
    /\ pc = "conv"
    /\ evalRun.at = "graph"
    /\ \E o \in EngineOutcomes :
         evalRun' = Called(evalRun, "graph_build", o, FirstAsk(evalArgs))
    /\ UNCHANGED callRest

\* engram.ask for the next asked QA pair, and its score.
AskCall ==
    /\ pc = "conv"
    /\ evalRun.at = "ask"
    /\ \E o \in EngineOutcomes :
         LET here == NextAskable(evalArgs.conv.qa, evalRun.k)
             next == NextAskable(evalArgs.conv.qa, here)
         IN evalRun' = [Called(evalRun, "ask", o,
                               IF next = 0 THEN "forget" ELSE "ask")
                          EXCEPT !.k = here]
    /\ UNCHANGED callRest

\* finally: engram.forget(project); then return, or the exception goes on.
ForgetCall ==
    /\ pc = "conv"
    /\ evalRun.at = "forget"
    /\ \E o \in EngineOutcomes :
         evalRun' = [evalRun EXCEPT
                       !.at = "end",
                       !.calls = Append(@, [call |-> "forget", o |-> o]),
                       !.exc = Pending(@, o)]
    /\ UNCHANGED callRest

NextCalls ==
    \/ EnterTry
    \/ AddFacts
    \/ LlmIngest
    \/ AddRaw
    \/ EmbedCall
    \/ GraphBuildCall
    \/ AskCall
    \/ ForgetCall

SpecCalls == InitCalls /\ [][NextCalls]_vars

\* The place of a call in the order ingestion, embed, graph build, ask,
\* forget.
Rank(call) ==
    CASE call \in {"add", "ingest"} -> 1
      [] call = "embed" -> 2
      [] call = "graph_build" -> 3
      [] call = "ask" -> 4
      [] call = "forget" -> 5

\* The positions of the record that hold the given call.
CallsOf(call) ==
    {n \in 1..Len(evalRun.calls) : evalRun.calls[n].call = call}

\* The sessions with text: what ingest_raw stores.
TextSessions == {j \in 1..Len(evalArgs.sessions) : evalArgs.sessions[j]}

\* C39: within one conversation evaluation the engine calls occur in the
\* order ingestion (add or ingest calls), embed, graph build, ask calls,
\* forget; graph build is called only when the graph option is on, and then
\* before every ask; no ask is issued before the one embed call has
\* returned; and when ingest reports failure (a non-zero exit) the raw
\* ingestion, one add for each session with text, is performed before embed.
C39_EngineCallOrder ==
    LET calls == evalRun.calls IN
    /\ \A m, n \in 1..Len(calls) :
          m < n => Rank(calls[m].call) <= Rank(calls[n].call)
    /\ Cardinality(CallsOf("embed")) <= 1
    /\ CallsOf("graph_build") # {} => evalArgs.use_graph
    /\ (CallsOf("ask") # {} /\ evalArgs.use_graph) =>
          \E g \in CallsOf("graph_build") :
             ~IsException(calls[g].o) /\ \A n \in CallsOf("ask") : g < n
    /\ \A n \in CallsOf("ask") :
          \E e \in CallsOf("embed") : e < n /\ ~IsException(calls[e].o)
    /\ \A i \in CallsOf("ingest") :
          (calls[i].o = "rc1" /\ CallsOf("embed") # {}) =>
              /\ i = 1
              /\ Cardinality(CallsOf("add")) = Cardinality(TextSessions)
              /\ \A n \in CallsOf("add") : \A e \in CallsOf("embed") :
                    i < n /\ n < e

\* A failed ingest, the raw ingestion of two sessions, embed, graph build,
\* two asks and forget.
C39_Witness ==
    /\ evalRun.at = "end"
    /\ evalRun.exc = "none"
    /\ [n \in 1..Len(evalRun.calls) |-> evalRun.calls[n].call] =
          <<"ingest", "add", "add", "embed", "graph_build", "ask", "ask",
            "forget">>
    /\ evalRun.calls[1].o = "rc1"
====
